---- MODULE Spec2Model ----
(***************************************************************************)
(* Tangerine: the parallel domain iteration framework (parallel_task.h),   *)
(* the scheduler it runs on (scheduler.h) and the shape cache              *)
(* (sdf_model.cpp), as state machines.                                     *)
(*                                                                         *)
(* SpecDomain : one ParallelDomainTaskChain stage, any domain shape, with  *)
(*              several threads inside Run() at once.                      *)
(* SpecChain  : a chain of stages built with ParallelTaskBuilder, run on   *)
(*              the scheduler's parallel slot, with DropEverything().      *)
(* SpecAsync  : AsyncTasks, ContinuousTasks and deferred deletes under     *)
(*              Advance(), DropEverything() and Teardown().                *)
(* SpecCache  : SDFModel creation and destruction, the Drawable cache and  *)
(*              its prune finalizer.                                       *)
(* SpecMesh   : the instances of one Drawable, SDFModel::Create against    *)
(*              MeshReady, and the coloring groups MeshReadyInner builds.  *)
(* SpecRepaint: the repaint fence and the LastRepaint stamp of the         *)
(*              coloring groups.                                           *)
(* SpecFrame  : the repaint fence driven by RenderFrame.                   *)
(* SpecAccumulator : one ParallelAccumulator under Reset, Push, Size, Join.*)
(* SpecGenerator : one SequenceGenerator, Reset and concurrent Advance.    *)
(* SpecColors : SDFModel::UpdateColors against a thread pushing colors.    *)
(* SpecDomainBlocked : SpecDomain with one thread's Loop call blocked and  *)
(*              the other threads scheduled fairly.                        *)
(* SpecChainFair : SpecChain without DropEverything(), every thread        *)
(*              scheduled fairly.                                          *)
(* SpecDomainFill : SpecDomain with Setup bodies that fill the domain.     *)
(* SpecCacheDrop : SpecCache with DropEverything() on the main thread.     *)
(* SpecCacheReuse : SpecCache with evaluators freed and their addresses    *)
(*              reused by the allocator.                                   *)
(* SpecDraw : SpecMesh with the instances drawn (DrawGL4).                 *)
(* SpecRepaintRace : PostPendingRepaintRequest() statement by statement    *)
(*              against FlagSceneRepaint() of another thread.              *)
(* SpecStartRace : StartRepaint() statement by statement on several        *)
(*              threads.                                                   *)
(***************************************************************************)
EXTENDS Integers, Sequences, FiniteSets, TLC

\* Scheduler::GetThreadPoolSize(): the number of worker threads.
ThreadPoolSize == 2
\* The largest domain size explored (covers 0, 1, pool size, pool size + 1).
MaxK == 3
\* The number of Run() calls made on the one stage of SpecDomain.
MaxRunCalls == 3

VARIABLES
    \* ---- one ParallelDomainTaskChain stage (SpecDomain) ----
    kind,           \* the ContainerT the stage was instantiated with
    K,              \* the size of the domain
    SetupPending,   \* bool SetupPending
    IterationCS,    \* std::mutex IterationCS: the holder, or Free
    NextIndex,      \* std::atomic_int NextIndex
    NextIter,       \* IteratorT NextIter (a position in the container)
    StopIter,       \* IteratorT StopIter
    NextLeaf,       \* SDFOctree* NextLeaf
    Progress,       \* SequenceGenerator / ParallelAccumulator ::Progress
    Lanes,          \* SequenceGenerator / ParallelAccumulator ::Lanes
    pc,             \* where each thread is inside Run()
    Elem,           \* the element of the thread's current Loop call
    Index,          \* the ElementIndex of the thread's current Loop call
    Stop,           \* SliceStopBefore of the lane the thread iterates
    Batch,          \* the rest of the batch the thread iterates
    runCalls,       \* Run() calls made so far
    runReturns,     \* Run() calls that have returned
    setupCalls,     \* Setup() calls begun
    setupReturns,   \* Setup() calls returned
    loopEarly,      \* a Loop call began before Setup had returned
    loopBag,        \* <<element, index>> -> number of Loop calls with it
    \* ---- a chain of stages on the scheduler's parallel slot (SpecChain) ----
    BuilderHead,    \* ParallelTaskBuilder::Head
    BuilderTail,    \* ParallelTaskBuilder::Tail
    built,          \* ParallelTaskBuilder::Run() was called
    linkSeq,        \* the nodes in the order they were linked
    NextTask,       \* ParallelTaskChain::NextTask of each node
    IntermediaryData,        \* whether each node's IntermediaryData holds the payload
    InitialIntermediaryData, \* whether the caller's unique_ptr still holds it
    payloadDestroyed,        \* the payload was destroyed with the node holding it
    stageK,         \* the size of each stage's domain
    stageSetupPending,  \* SetupPending of each node
    stageCS,        \* IterationCS of each node
    stageNextIndex, \* NextIndex of each node
    ParallelQueue,  \* the scheduler's parallel task holder; its head is active
    runners,        \* threads inside Run() of the active task
    PauseThreads,   \* the workers are told to take no new work
    cpc,            \* where each thread is
    cstage,         \* the node each thread works on
    estep,          \* the statement of Exhausted() the thread is at
    calls,          \* per node: calls begun and returned of Setup, Loop, Done, Exhausted
    retired,        \* the scheduler deleted the node after Exhausted() returned
    destroyCount,   \* how many times each node's destructor ran
    dropState,      \* DropEverything(): "none", "waiting", "returned"
    dropInFlight,   \* DropEverything() was called while a stage was active
    \* ---- the scheduler's async, continuous and delete work (SpecAsync) ----
    Inbox,          \* AsyncTasks waiting for a worker
    Outbox,         \* AsyncTasks whose Run() returned, waiting for Advance()
    ContinuousQueue,    \* the ContinuousTasks queued
    DeleteQueue,    \* the deferred deletes queued
    submitted,      \* the tasks enqueued so far, per holder
    acalls,         \* per AsyncTask: Run begun and returned, Done, Abort, deleted
    wpc,            \* where each worker is: "idle" or inside "run"
    wtask,          \* the AsyncTask each worker runs
    apc,            \* where the main thread is
    mtask,          \* the AsyncTask whose Done() the main thread is in
    contLeft,       \* the continuous tasks still to consult in this Advance()
    Live,           \* Scheduler::Live()
    asyncPaused,    \* the workers are told to take no new work
    execLog,        \* executions of main-thread-only work
    \* ---- the shape cache (SpecCache) ----
    DrawableCache,  \* std::vector<std::pair<size_t, DrawableWeakRef>> DrawableCache
    DrawableCacheCS,    \* std::mutex DrawableCacheCS: the holder, or Free
    Drawables,      \* every Drawable: strong references, build in flight, ...
    Models,         \* every SDFModel: its Key and Painter
    mpc,            \* where each thread is inside SDFModel::SDFModel
    mthis,          \* the SDFModel each thread is constructing
    mpos,           \* the position of each thread's scan of the cache
    PendingPrunes,  \* prune finalizers enqueued and not yet run
    pruneOverlapped,    \* a prune ran while a thread held DrawableCacheCS
    EvaluatorAt,    \* the evaluator tree the caller holds at each address
    \* ---- the instances of one Drawable and MeshReady (SpecMesh) ----
    MaterialSlots,  \* Painter->MaterialSlots: the vertex count of each slot
    MeshAvailable,  \* Painter->MeshAvailable
    ready,          \* where MeshReady(Painter) is: "none", "apply", "done"
    meshModels,     \* every SDFModel bound to the Drawable
    rpc,            \* where each thread is inside SDFModel::Create
    rthis,          \* the SDFModel each thread is creating
    meshReadyOverlapped,    \* MeshReady ran while a thread was inside SDFModel::Create
    MeshUploaded,   \* Painter->MeshUploaded
    uploadedMesh,   \* what IndexBuffer and PositionBuffer hold on the renderer
    uploads,        \* uploads of the Drawable's buffers so far
    \* ---- the repaint fence (SpecRepaint) ----
    RepaintFence,       \* std::atomic<uint64_t> RepaintFence
    RepaintRequested,   \* bool RepaintRequested
    LastRepaint,        \* InstanceColoringGroup::LastRepaint of each group
    flags,              \* FlagSceneRepaint calls since the last PostPendingRepaintRequest
    rcall,              \* the last call made
    rflags,             \* the value of flags when the last call was made
    rret,               \* what the last StartRepaint returned
    stamped,            \* the (group, fence) pairs StartRepaint was called at
    LastWorldToView,    \* static glm::mat4 LastWorldToView of RenderFrame
    WorldToView,        \* UploadedView.WorldToView of the frame
    AnyReady,           \* AnyReady of the frame
    fpc,                \* where the main thread is inside RenderFrame
    rendered,           \* the painting sets rendered in the frame
    prevView,           \* UploadedView.WorldToView of the frame before
    fenceAtStart,       \* RepaintFence when the frame began
    posts,              \* PostPendingRepaintRequest calls of the frame
    postpc,             \* where the main thread is inside PostPendingRepaintRequest
    spc,                \* where each thread is inside StartRepaint
    sgroup,             \* the coloring group of each thread's StartRepaint call
    sfence,             \* CurrentFence of each thread's StartRepaint call
    scurrent,           \* ColorIsCurrent of each thread's StartRepaint call
    staleReports,       \* StartRepaint calls that reported stale, by (group, fence)
    \* ---- one ParallelAccumulator: Reset, Push, Size, Join (SpecAccumulator) ----
    accLanes,           \* std::vector<ContainerT> Lanes
    accPushes,          \* the Push calls since the last Reset: thread and value, in call order
    Merged,             \* the container Join was last called on, after the call
    mergedBefore,       \* the same container before the call
    accSize,            \* what the last Size() call returned
    acall,              \* the last call made on the accumulator
    \* ---- one SequenceGenerator: Reset and concurrent Advance (SpecGenerator) ----
    genCount,           \* Count of the last Reset
    genPartitions,      \* Partitions of the last Reset
    genLanes,           \* std::vector<Slice> Lanes
    genProgress,        \* std::atomic_size_t Progress
    gpc,                \* where each thread is inside Advance
    gLaneIndex,         \* LaneIndex of each thread's Advance call
    gLate,              \* the call began after every lane had been returned
    gOut,               \* what each thread's last Advance call returned
    handedOut,          \* the lanes returned with result true since the last Reset
    genCalls,           \* Advance calls begun since the last Reset
    \* ---- the color buffers of one SDFModel: UpdateColors and a pusher (SpecColors) ----
    colorGroups,        \* ColoringGroups of the instance: (Vertices, IndexStart, IndexRange)
    instColors,         \* SDFModel::Colors, by vertex index
    groupColors,        \* InstanceColoringGroup::Colors of each group: its pending buffer
    ColorCS,            \* InstanceColoringGroup::ColorCS of each group: its holder
    GroupIndex,         \* GroupIndex of the UpdateColors call
    NewColors,          \* NewColors of the UpdateColors call
    ucpc,               \* where the main thread is inside UpdateColors
    colorsBefore,       \* SDFModel::Colors when the last group's buffer was taken
    pcpc,               \* where the material-evaluation thread is inside a push
    pushGroup,          \* the group the material-evaluation thread pushes to
    pushes,             \* the buffers pushed so far
    applied             \* how often the buffer of each push was written to SDFModel::Colors

domVars == <<kind, K, SetupPending, IterationCS, NextIndex, NextIter, StopIter,
             NextLeaf, Progress, Lanes, pc, Elem, Index, Stop, Batch, runCalls,
             runReturns, setupCalls, setupReturns, loopEarly, loopBag>>

chainVars == <<BuilderHead, BuilderTail, built, linkSeq, NextTask, IntermediaryData,
               InitialIntermediaryData, payloadDestroyed, stageK, stageSetupPending,
               stageCS, stageNextIndex, ParallelQueue, runners, PauseThreads, cpc,
               cstage, estep, calls, retired, destroyCount, dropState, dropInFlight>>

asyncVars == <<Inbox, Outbox, ContinuousQueue, DeleteQueue, submitted, acalls, wpc,
               wtask, apc, mtask, contLeft, Live, asyncPaused, execLog>>

cacheVars == <<DrawableCache, DrawableCacheCS, Drawables, Models, mpc, mthis, mpos,
               PendingPrunes, pruneOverlapped, EvaluatorAt>>

drawVars == <<MeshUploaded, uploadedMesh, uploads>>

meshVars == <<MaterialSlots, MeshAvailable, ready, meshModels, rpc, rthis,
              meshReadyOverlapped, drawVars>>

frameVars == <<LastWorldToView, WorldToView, AnyReady, fpc, rendered, prevView,
               fenceAtStart, posts>>

startVars == <<spc, sgroup, sfence, scurrent, staleReports>>

repaintVars == <<RepaintFence, RepaintRequested, LastRepaint, flags, rcall, rflags,
                 rret, stamped, frameVars, postpc, startVars>>

accVars == <<accLanes, accPushes, Merged, mergedBefore, accSize, acall>>

genVars == <<genCount, genPartitions, genLanes, genProgress, gpc, gLaneIndex, gLate,
             gOut, handedOut, genCalls>>

colorVars == <<colorGroups, instColors, groupColors, ColorCS, GroupIndex, NewColors,
               ucpc, colorsBefore, pcpc, pushGroup, pushes, applied>>

vars == <<domVars, chainVars, asyncVars, cacheVars, meshVars, repaintVars, accVars,
          genVars, colorVars>>

otherThanDomain == <<chainVars, asyncVars, cacheVars, meshVars, repaintVars, accVars,
    genVars, colorVars>>
otherThanChain == <<domVars, asyncVars, cacheVars, meshVars, repaintVars, accVars,
    genVars, colorVars>>
otherThanAsync == <<domVars, chainVars, cacheVars, meshVars, repaintVars, accVars,
    genVars, colorVars>>
otherThanCache == <<domVars, chainVars, asyncVars, meshVars, repaintVars, accVars,
    genVars, colorVars>>
otherThanMesh == <<domVars, chainVars, asyncVars, cacheVars, repaintVars, accVars,
    genVars, colorVars>>
otherThanRepaint == <<domVars, chainVars, asyncVars, cacheVars, meshVars, accVars,
    genVars, colorVars>>
otherThanAccumulator == <<domVars, chainVars, asyncVars, cacheVars, meshVars,
    repaintVars, genVars, colorVars>>
otherThanGenerator == <<domVars, chainVars, asyncVars, cacheVars, meshVars, repaintVars,
    accVars, colorVars>>
otherThanColors == <<domVars, chainVars, asyncVars, cacheVars, meshVars, repaintVars,
    accVars, genVars>>

----------------------------------------------------------------------------
\* The five domain shapes RunInner is specialised for.
Kinds == {"Contiguous", "Forward", "SequenceGenerator", "ParallelAccumulator", "SDFOctree"}

\* The worker threads (Scheduler::GetThreadIndex() > 0).
Workers == 1..ThreadPoolSize

Free == -1
Null == -1

\* Elements are named by their position in the domain, 0..K-1.
Elems == 0..(MaxK - 1)
Idxs == (-1)..(MaxK - 1)

Min(a, b) == IF a < b THEN a ELSE b

RECURSIVE SumSeq(_)
SumSeq(s) == IF s = <<>> THEN 0 ELSE Head(s) + SumSeq(Tail(s))

\* SequenceGenerator::Reset(Count, Partitions): the lanes, as <<Start, StopBefore>>.
RECURSIVE ResetLanes(_, _, _, _)
ResetLanes(Count, SliceCount, SliceStart, LanesLeft) ==
    LET SliceStopBefore == Min(SliceStart + SliceCount, Count)
    IN  IF LanesLeft = 0 \/ ~(SliceStart < SliceStopBefore)
        THEN <<>>
        ELSE <<(<<SliceStart, SliceStopBefore>>)>>
             \o ResetLanes(Count, SliceCount, SliceStopBefore, LanesLeft - 1)

Reset_Floor(Count, Partitions) == ResetLanes(Count, Count \div Partitions, 0, Partitions)
Reset(Count, Partitions) ==
    LET SliceCount == (Count + Partitions - 1) \div Partitions
    IN  ResetLanes(Count, SliceCount, 0, Partitions)

\* The lanes of a ParallelAccumulator after Reset() and some Push calls: one
\* buffer per thread (the main thread is lane 0), holding element names in
\* merged order.
AccumulatorLanes(sizes) ==
    [l \in 1..Len(sizes) |->
        [i \in 1..sizes[l] |-> SumSeq(SubSeq(sizes, 1, l - 1)) + (i - 1)]]

LaneSizes(k) ==
    {s \in [1..(ThreadPoolSize + 1) -> 0..k] : SumSeq(s) = k}

\* ParallelAccumulator::Advance computes the lane's offset into its own copy of
\* OutBatchStart (the parameter is passed by value): the sizes of the lower
\* lanes as they are when it reads them.
AdvanceOutBatchStart(lanes, LaneIndex) ==
    SumSeq([p \in 1..LaneIndex |-> Len(lanes[p])])

\* What the caller's BatchStart holds after Domain->Advance(Batch, BatchStart):
\* what it held before, since Advance writes to a copy.
BatchStartAfterAdvance(BatchStart, lanes, LaneIndex) == BatchStart

\* The octree's leaf list: Domain is the root, named K; the leaves 0..K-1 are
\* linked through SDFOctree::Next from the root.
Root(k) == k
NextOf(k, n) ==
    IF n = Root(k) THEN (IF k > 0 THEN 0 ELSE Null)
    ELSE IF n + 1 < k THEN n + 1 ELSE Null

\* The claim section of the forward iterator and octree loops ends with
\* IterationCS.unlock(), before Loop is called.
LockAfterClaim_Held(t) == t
LockAfterClaim(t) == Free

\* IterationCS.lock() returns only when no thread holds the mutex.
CanLock_NoMutex(t) == TRUE
CanLock(t) == IterationCS = Free

\* The index Loop is called with where the domain has none:
\* Loop(*IntermediaryData, *Cursor, -1) and Loop(*IntermediaryData, *Leaf, -1)
NoIndex_First == CHOOSE i \in Elems : \A j \in Elems : i <= j
NoIndex == -1

BagAdd(bag, e, i) == [bag EXCEPT ![<<e, i>>] = @ + 1]

\* The Loop call a thread makes: recorded when it begins.
BeginLoop(t, e, i) ==
    /\ pc' = [pc EXCEPT ![t] = "inloop"]
    /\ Elem' = [Elem EXCEPT ![t] = e]
    /\ Index' = [Index EXCEPT ![t] = i]
    /\ loopBag' = BagAdd(loopBag, e, i)
    /\ loopEarly' = (loopEarly \/ setupReturns = 0)

NoLoop(t, next) ==
    /\ pc' = [pc EXCEPT ![t] = next]
    /\ UNCHANGED <<Elem, Index, loopBag, loopEarly>>

----------------------------------------------------------------------------
InitDomain ==
    /\ kind \in Kinds
    /\ K \in 0..MaxK
    /\ SetupPending = TRUE
    /\ IterationCS = Free
    /\ NextIndex = 0
    /\ NextIter = Null
    /\ StopIter = Null
    /\ NextLeaf = Null
    /\ Progress = 0
    /\ Lanes \in IF kind = "SequenceGenerator" THEN {Reset(K, ThreadPoolSize)}
                 ELSE IF kind = "ParallelAccumulator"
                      THEN {AccumulatorLanes(s) : s \in LaneSizes(K)}
                      ELSE {<<>>}
    /\ pc = [t \in Workers |-> "idle"]
    /\ Elem = [t \in Workers |-> Null]
    /\ Index = [t \in Workers |-> Null]
    /\ Stop = [t \in Workers |-> 0]
    /\ Batch = [t \in Workers |-> <<>>]
    /\ runCalls = 0
    /\ runReturns = 0
    /\ setupCalls = 0
    /\ setupReturns = 0
    /\ loopEarly = FALSE
    /\ loopBag = [p \in Elems \X Idxs |-> 0]

\* Run(): RunInner begins; Domain = DomainAccessor(*IntermediaryData).
RunBegin(t) ==
    /\ pc[t] = "idle"
    /\ runCalls < MaxRunCalls
    /\ runCalls' = runCalls + 1
    /\ pc' = [pc EXCEPT ![t] = "lock"]
    /\ UNCHANGED <<kind, K, SetupPending, IterationCS, NextIndex, NextIter, StopIter,
                   NextLeaf, Progress, Lanes, Elem, Index, Stop, Batch, runReturns,
                   setupCalls, setupReturns, loopEarly, loopBag>>
    /\ UNCHANGED otherThanDomain

\* IterationCS.lock(); if (SetupPending) { SetupPending = false; (prime the
\* cursors;) Setup(...) begins }
SetupLock(t) ==
    /\ pc[t] = "lock"
    /\ CanLock(t)
    /\ IterationCS' = t
    /\ IF SetupPending
       THEN /\ SetupPending' = FALSE
            /\ NextIter' = IF kind = "Forward" THEN 0 ELSE NextIter
            /\ StopIter' = IF kind = "Forward" THEN K ELSE StopIter
            /\ NextLeaf' = IF kind = "SDFOctree" THEN NextOf(K, Root(K)) ELSE NextLeaf
            /\ setupCalls' = setupCalls + 1
            /\ pc' = [pc EXCEPT ![t] = "setup"]
       ELSE /\ pc' = [pc EXCEPT ![t] = "unlock"]
            /\ UNCHANGED <<SetupPending, NextIter, StopIter, NextLeaf, setupCalls>>
    /\ UNCHANGED <<kind, K, NextIndex, Progress, Lanes, Elem, Index, Stop, Batch,
                   runCalls, runReturns, setupReturns, loopEarly, loopBag>>
    /\ UNCHANGED otherThanDomain

\* Setup(...) returns.
SetupReturn(t) ==
    /\ pc[t] = "setup"
    /\ setupReturns' = setupReturns + 1
    /\ pc' = [pc EXCEPT ![t] = "unlock"]
    /\ UNCHANGED <<kind, K, SetupPending, IterationCS, NextIndex, NextIter, StopIter,
                   NextLeaf, Progress, Lanes, Elem, Index, Stop, Batch, runCalls,
                   runReturns, setupCalls, loopEarly, loopBag>>
    /\ UNCHANGED otherThanDomain

\* IterationCS.unlock() after the setup section.
SetupUnlock(t) ==
    /\ pc[t] = "unlock"
    /\ IterationCS' = Free
    /\ pc' = [pc EXCEPT ![t] = "claim"]
    /\ UNCHANGED <<kind, K, SetupPending, NextIndex, NextIter, StopIter, NextLeaf,
                   Progress, Lanes, Elem, Index, Stop, Batch, runCalls, runReturns,
                   setupCalls, setupReturns, loopEarly, loopBag>>
    /\ UNCHANGED otherThanDomain

\* contiguous_iterator: ClaimedIndex = NextIndex.fetch_add(1);
\* if (ClaimedIndex < Domain->size()) Loop(..., (*Domain)[ClaimedIndex], ClaimedIndex)
ClaimContiguous(t) ==
    /\ pc[t] = "claim"
    /\ kind = "Contiguous"
    /\ LET ClaimedIndex == NextIndex
       IN  /\ NextIndex' = NextIndex + 1
           /\ IF ClaimedIndex < K
              THEN BeginLoop(t, ClaimedIndex, ClaimedIndex)
              ELSE NoLoop(t, "return")
    /\ UNCHANGED <<kind, K, SetupPending, IterationCS, NextIter, StopIter, NextLeaf,
                   Progress, Lanes, Stop, Batch, runCalls, runReturns, setupCalls,
                   setupReturns>>
    /\ UNCHANGED otherThanDomain

\* forward_iterator: under IterationCS, if (NextIter != StopIter)
\* { Cursor = NextIter; ++NextIter; }; then Loop(..., *Cursor, -1)
ClaimForward(t) ==
    /\ pc[t] = "claim"
    /\ kind = "Forward"
    /\ CanLock(t)
    /\ IF NextIter # StopIter
       THEN /\ NextIter' = NextIter + 1
            /\ BeginLoop(t, NextIter, NoIndex)
       ELSE /\ NoLoop(t, "return")
            /\ UNCHANGED NextIter
    /\ IterationCS' = LockAfterClaim(t)
    /\ UNCHANGED <<kind, K, SetupPending, NextIndex, StopIter, NextLeaf,
                   Progress, Lanes, Stop, Batch, runCalls, runReturns, setupCalls,
                   setupReturns>>
    /\ UNCHANGED otherThanDomain

\* SequenceGenerator: Domain->Advance(SliceStart, SliceStopBefore), then the
\* first Loop call of the lane.
ClaimSequenceGenerator(t) ==
    /\ pc[t] = "claim"
    /\ kind = "SequenceGenerator"
    /\ LET LaneIndex == Progress
       IN  /\ Progress' = Progress + 1
           /\ IF LaneIndex < Len(Lanes)
              THEN LET SliceStart == Lanes[LaneIndex + 1][1]
                       SliceStopBefore == Lanes[LaneIndex + 1][2]
                   IN  /\ Stop' = [Stop EXCEPT ![t] = SliceStopBefore]
                       /\ IF SliceStart < SliceStopBefore
                          THEN BeginLoop(t, SliceStart, SliceStart)
                          ELSE NoLoop(t, "claim")
              ELSE /\ NoLoop(t, "return")
                   /\ UNCHANGED Stop
    /\ UNCHANGED <<kind, K, SetupPending, IterationCS, NextIndex, NextIter, StopIter,
                   NextLeaf, Lanes, Batch, runCalls, runReturns, setupCalls,
                   setupReturns>>
    /\ UNCHANGED otherThanDomain

\* ParallelAccumulator: Domain->Advance(Batch, BatchStart) moves one lane into
\* Batch; Index = BatchStart; then the first Loop call of the batch.
ClaimParallelAccumulator(t) ==
    /\ pc[t] = "claim"
    /\ kind = "ParallelAccumulator"
    /\ LET LaneIndex == Progress
       IN  /\ Progress' = Progress + 1
           /\ IF LaneIndex < Len(Lanes)
              THEN LET OutBatch == Lanes[LaneIndex + 1]
                       BatchStart == BatchStartAfterAdvance(0, Lanes, LaneIndex)
                   IN  /\ Lanes' = [Lanes EXCEPT ![LaneIndex + 1] = <<>>]
                       /\ IF OutBatch # <<>>
                          THEN /\ Batch' = [Batch EXCEPT ![t] = Tail(OutBatch)]
                               /\ BeginLoop(t, Head(OutBatch), BatchStart)
                          ELSE /\ NoLoop(t, "claim")
                               /\ UNCHANGED Batch
              ELSE /\ NoLoop(t, "return")
                   /\ UNCHANGED <<Lanes, Batch>>
    /\ UNCHANGED <<kind, K, SetupPending, IterationCS, NextIndex, NextIter, StopIter,
                   NextLeaf, Stop, runCalls, runReturns, setupCalls, setupReturns>>
    /\ UNCHANGED otherThanDomain

\* SDFOctree: under IterationCS, Leaf = NextLeaf;
\* NextLeaf = Leaf ? Leaf->Next : nullptr; then Loop(..., *Leaf, -1)
ClaimOctree(t) ==
    /\ pc[t] = "claim"
    /\ kind = "SDFOctree"
    /\ CanLock(t)
    /\ LET Leaf == NextLeaf
       IN  /\ NextLeaf' = IF Leaf # Null THEN NextOf(K, Leaf) ELSE Null
           /\ IF Leaf # Null
              THEN BeginLoop(t, Leaf, NoIndex)
              ELSE NoLoop(t, "return")
    /\ IterationCS' = LockAfterClaim(t)
    /\ UNCHANGED <<kind, K, SetupPending, NextIndex, NextIter, StopIter,
                   Progress, Lanes, Stop, Batch, runCalls, runReturns, setupCalls,
                   setupReturns>>
    /\ UNCHANGED otherThanDomain

\* Loop(...) returns; a lane or batch goes on to its next element.
LoopReturn(t) ==
    /\ pc[t] = "inloop"
    /\ IF kind = "SequenceGenerator" /\ Index[t] + 1 < Stop[t]
       THEN /\ BeginLoop(t, Index[t] + 1, Index[t] + 1)
            /\ UNCHANGED Batch
       ELSE IF kind = "ParallelAccumulator" /\ Batch[t] # <<>>
            THEN /\ BeginLoop(t, Head(Batch[t]), Index[t] + 1)
                 /\ Batch' = [Batch EXCEPT ![t] = Tail(Batch[t])]
            ELSE /\ NoLoop(t, "claim")
                 /\ UNCHANGED Batch
    /\ UNCHANGED <<kind, K, SetupPending, IterationCS, NextIndex, NextIter, StopIter,
                   NextLeaf, Progress, Lanes, Stop, runCalls, runReturns, setupCalls,
                   setupReturns>>
    /\ UNCHANGED otherThanDomain

\* RunInner returns: the thread's claim failed.
RunReturn(t) ==
    /\ pc[t] = "return"
    /\ runReturns' = runReturns + 1
    /\ pc' = [pc EXCEPT ![t] = "idle"]
    /\ UNCHANGED <<kind, K, SetupPending, IterationCS, NextIndex, NextIter, StopIter,
                   NextLeaf, Progress, Lanes, Elem, Index, Stop, Batch, runCalls,
                   setupCalls, setupReturns, loopEarly, loopBag>>
    /\ UNCHANGED otherThanDomain

\* A step of thread t inside or into Run().
RunStep(t) ==
    \/ RunBegin(t)
    \/ SetupLock(t)
    \/ SetupReturn(t)
    \/ SetupUnlock(t)
    \/ ClaimContiguous(t)
    \/ ClaimForward(t)
    \/ ClaimSequenceGenerator(t)
    \/ ClaimParallelAccumulator(t)
    \/ ClaimOctree(t)
    \/ LoopReturn(t)
    \/ RunReturn(t)

\* The thread whose Loop bodies block indefinitely.
BlockedThread == 1

\* The same stage when no Loop call of BlockedThread ever returns; the other
\* threads keep running.
NextDomainBlocked ==
    \E t \in Workers :
        \/ RunBegin(t)
        \/ SetupLock(t)
        \/ SetupReturn(t)
        \/ SetupUnlock(t)
        \/ ClaimContiguous(t)
        \/ ClaimForward(t)
        \/ ClaimSequenceGenerator(t)
        \/ ClaimParallelAccumulator(t)
        \/ ClaimOctree(t)
        \/ t # BlockedThread /\ LoopReturn(t)
        \/ RunReturn(t)

NextDomain ==
    \E t \in Workers :
        \/ RunBegin(t)
        \/ SetupLock(t)
        \/ SetupReturn(t)
        \/ SetupUnlock(t)
        \/ ClaimContiguous(t)
        \/ ClaimForward(t)
        \/ ClaimSequenceGenerator(t)
        \/ ClaimParallelAccumulator(t)
        \/ ClaimOctree(t)
        \/ LoopReturn(t)
        \/ RunReturn(t)

\* The lanes after a Setup body run by thread t filled the domain with k
\* elements: Domain->Reset(k, ...) for a SequenceGenerator, k Push calls
\* into the lane of the calling thread for a ParallelAccumulator.
FilledLanes(t, k) ==
    IF kind = "SequenceGenerator" THEN Reset(k, ThreadPoolSize)
    ELSE IF kind = "ParallelAccumulator"
         THEN AccumulatorLanes([l \in 1..(ThreadPoolSize + 1) |-> IF l = t + 1 THEN k ELSE 0])
         ELSE Lanes

\* Setup(...) of a stage whose domain is still empty fills the domain with
\* k elements and returns. RunInner has read Domain->begin(), Domain->end()
\* and Domain->Next before the call and does not read them again; the
\* iterators of a node-based container stay valid, and those of the empty
\* container are both end().
SetupFills(t, k) ==
    /\ pc[t] = "setup"
    /\ K = 0
    /\ K' = k
    /\ Lanes' = FilledLanes(t, k)
    /\ setupReturns' = setupReturns + 1
    /\ pc' = [pc EXCEPT ![t] = "unlock"]
    /\ UNCHANGED <<kind, SetupPending, IterationCS, NextIndex, NextIter, StopIter,
                   NextLeaf, Progress, Elem, Index, Stop, Batch, runCalls,
                   runReturns, setupCalls, loopEarly, loopBag>>
    /\ UNCHANGED otherThanDomain

\* The stage with Setup bodies that fill the domain.
NextDomainFill ==
    \E t \in Workers :
        \/ RunBegin(t)
        \/ SetupLock(t)
        \/ SetupReturn(t)
        \/ \E k \in 1..MaxK : SetupFills(t, k)
        \/ SetupUnlock(t)
        \/ ClaimContiguous(t)
        \/ ClaimForward(t)
        \/ ClaimSequenceGenerator(t)
        \/ ClaimParallelAccumulator(t)
        \/ ClaimOctree(t)
        \/ LoopReturn(t)
        \/ RunReturn(t)

----------------------------------------------------------------------------
(***************************************************************************)
(* SpecChain: a chain of ParallelDomainTaskChain stages built with         *)
(* ParallelTaskBuilder and run through the scheduler's parallel task       *)
(* holder by the workers and the main thread, with DropEverything().       *)
(* The scheduler's implementation is known from scheduler.h's declarations *)
(* and its documented behaviour only.                                      *)
(***************************************************************************)
\* The number of chain nodes allocated.
NumStages == 2
\* The largest domain size of a chain stage.
MaxStageK == 1
\* The number of Run() calls the scheduler's callers make on one stage.
MaxStageRuns == 2

Nodes == 1..NumStages
NoNode == 0
\* Scheduler::GetThreadIndex() of the main thread.
Main == 0
\* The worker threads of the chain specification.
ChainPoolSize == 1
ChainWorkers == 1..ChainPoolSize
Threads == {Main} \cup ChainWorkers

NoCalls == [run |-> 0, setup |-> 0, setupRet |-> 0, loop |-> 0, loopRet |-> 0,
            done |-> 0, doneRet |-> 0, exhausted |-> 0]

Called(c, s, f) == [c EXCEPT ![s][f] = @ + 1]

Alive(s) == s \in Nodes /\ s \in { linkSeq[i] : i \in 1..Len(linkSeq) } /\ destroyCount[s] = 0

\* ParallelDomainTaskChain::Exhausted(): its statements, in order.
ExhaustedSteps_BatonFirst == <<"BatonPass", "Done">>
ExhaustedSteps_NoBaton == <<"Done">>
ExhaustedSteps == <<"Done", "BatonPass">>

\* BatonPass: std::swap(NextTask->IntermediaryData, IntermediaryData)
SwapIntermediaryData_Copy(data, s, n) == [data EXCEPT ![n] = data[s]]
SwapIntermediaryData_Skipped(data, s, n) == data
SwapIntermediaryData(data, s, n) == [data EXCEPT ![n] = data[s], ![s] = data[n]]

\* BatonPass: NextTask = nullptr, after the successor was enqueued.
LinkAfterBatonPass_Kept(n) == n
LinkAfterBatonPass(n) == NoNode

\* ~ParallelTaskChain: if (NextTask) delete NextTask
DestructorDeletes(next, s) == next[s]

\* The nodes whose destructors `delete s` runs, in order. Deleting a node
\* that was destroyed before is recorded and goes no further.
RECURSIVE DeleteChain(_, _, _)
DeleteChain(next, destroyed, s) ==
    IF s = NoNode THEN <<>>
    ELSE IF destroyed[s] > 0 THEN <<s>>
    ELSE <<s>> \o DeleteChain(next, destroyed, DestructorDeletes(next, s))

RECURSIVE DeleteAll(_, _, _)
DeleteAll(next, destroyed, tasks) ==
    IF tasks = <<>> THEN <<>>
    ELSE LET first == DeleteChain(next, destroyed, Head(tasks))
             after == [n \in Nodes |->
                        destroyed[n] + Cardinality({i \in 1..Len(first) : first[i] = n})]
         IN  first \o DeleteAll(next, after, Tail(tasks))

Times(list, n) == Cardinality({i \in 1..Len(list) : list[i] = n})

\* The effect of running the destructors of `list` on the model's state.
Destroy(list) ==
    /\ destroyCount' = [n \in Nodes |-> Min(2, destroyCount[n] + Times(list, n))]
    /\ payloadDestroyed' =
            (payloadDestroyed \/ \E i \in 1..Len(list) : IntermediaryData[list[i]])
    /\ IntermediaryData' = [n \in Nodes |-> IntermediaryData[n] /\ Times(list, n) = 0]

\* Scheduler::EnqueueParallel(TaskPrototype): the task joins the holder; the
\* holder's head is the active parallel task.
EnqueueParallel(queue, task) == Append(queue, task)
ActiveTask == IF ParallelQueue = <<>> THEN NoNode ELSE Head(ParallelQueue)

\* The scheduler's bookkeeping: the caller that leaves Run() last is the one
\* that calls Exhausted().
IsLastRunner_Any(r) == TRUE
IsLastRunner(r) == r = 0

\* DropEverything(): the parallel task holder after the call, every task in
\* it deleted.
HolderAfterDrop_Kept(queue) == queue
HolderAfterDrop(queue) == <<>>

\* DropEverything() and Teardown() wait until no worker is inside a task.
WorkersQuiescent_NoWait == TRUE
WorkersQuiescent == \A t \in ChainWorkers : cpc[t] = "idle"

InitChain ==
    /\ BuilderHead = NoNode
    /\ BuilderTail = NoNode
    /\ built = FALSE
    /\ linkSeq = <<>>
    /\ NextTask = [s \in Nodes |-> NoNode]
    /\ IntermediaryData = [s \in Nodes |-> FALSE]
    /\ InitialIntermediaryData = TRUE
    /\ payloadDestroyed = FALSE
    /\ stageK \in [Nodes -> 0..MaxStageK]
    /\ stageSetupPending = [s \in Nodes |-> TRUE]
    /\ stageCS = [s \in Nodes |-> Free]
    /\ stageNextIndex = [s \in Nodes |-> 0]
    /\ ParallelQueue = <<>>
    /\ runners = 0
    /\ PauseThreads = FALSE
    /\ cpc = [t \in Threads |-> "idle"]
    /\ cstage = [t \in Threads |-> NoNode]
    /\ estep = [t \in Threads |-> 1]
    /\ calls = [s \in Nodes |-> NoCalls]
    /\ retired = [s \in Nodes |-> FALSE]
    /\ destroyCount = [s \in Nodes |-> 0]
    /\ dropState = "none"
    /\ dropInFlight = FALSE

\* The chain spec's variables while another specification runs.
ParkedChain ==
    /\ BuilderHead = NoNode
    /\ BuilderTail = NoNode
    /\ built = FALSE
    /\ linkSeq = <<>>
    /\ NextTask = <<>>
    /\ IntermediaryData = <<>>
    /\ InitialIntermediaryData = FALSE
    /\ payloadDestroyed = FALSE
    /\ stageK = <<>>
    /\ stageSetupPending = <<>>
    /\ stageCS = <<>>
    /\ stageNextIndex = <<>>
    /\ ParallelQueue = <<>>
    /\ runners = 0
    /\ PauseThreads = FALSE
    /\ cpc = <<>>
    /\ cstage = <<>>
    /\ estep = <<>>
    /\ calls = <<>>
    /\ retired = <<>>
    /\ destroyCount = <<>>
    /\ dropState = "none"
    /\ dropInFlight = FALSE

ParkedDomain ==
    /\ kind = "Contiguous"
    /\ K = 0
    /\ SetupPending = TRUE
    /\ IterationCS = Free
    /\ NextIndex = 0
    /\ NextIter = Null
    /\ StopIter = Null
    /\ NextLeaf = Null
    /\ Progress = 0
    /\ Lanes = <<>>
    /\ pc = <<>>
    /\ Elem = <<>>
    /\ Index = <<>>
    /\ Stop = <<>>
    /\ Batch = <<>>
    /\ runCalls = 0
    /\ runReturns = 0
    /\ setupCalls = 0
    /\ setupReturns = 0
    /\ loopEarly = FALSE
    /\ loopBag = <<>>

\* new ParallelDomainTaskChain(...) and ParallelTaskBuilder::Link(Next). The
\* head is constructed with the caller's payload (swapped out of the caller's
\* unique_ptr), every other node without one. Nodes are numbered in the order
\* they are allocated and linked.
Link(s) ==
    /\ cpc[Main] = "idle"
    /\ dropState # "waiting"
    /\ ~built
    /\ s = Len(linkSeq) + 1
    /\ IF BuilderHead = NoNode
       THEN /\ IntermediaryData' = [IntermediaryData EXCEPT ![s] = InitialIntermediaryData]
            /\ InitialIntermediaryData' = IntermediaryData[s]
            /\ BuilderHead' = s
            /\ UNCHANGED NextTask
       ELSE /\ NextTask' = [NextTask EXCEPT ![BuilderTail] = s]
            /\ UNCHANGED <<IntermediaryData, InitialIntermediaryData, BuilderHead>>
    /\ BuilderTail' = s
    /\ linkSeq' = Append(linkSeq, s)
    /\ UNCHANGED <<built, payloadDestroyed, stageK, stageSetupPending, stageCS,
                   stageNextIndex, ParallelQueue, runners, PauseThreads, cpc, cstage,
                   estep, calls, retired, destroyCount, dropState, dropInFlight>>
    /\ UNCHANGED otherThanChain

\* ParallelTaskBuilder::Run()
BuilderRun ==
    /\ cpc[Main] = "idle"
    /\ dropState # "waiting"
    /\ ~built
    /\ BuilderHead # NoNode
    /\ ParallelQueue' = EnqueueParallel(ParallelQueue, BuilderHead)
    /\ BuilderHead' = NoNode
    /\ BuilderTail' = NoNode
    /\ built' = TRUE
    /\ UNCHANGED <<linkSeq, NextTask, IntermediaryData, InitialIntermediaryData,
                   payloadDestroyed, stageK, stageSetupPending, stageCS, stageNextIndex,
                   runners, PauseThreads, cpc, cstage, estep, calls, retired,
                   destroyCount, dropState, dropInFlight>>
    /\ UNCHANGED otherThanChain

\* A worker, or the main thread between its other duties, takes the active
\* parallel task and calls Run() on it.
Enter(t) ==
    /\ cpc[t] = "idle"
    /\ IF t = Main THEN dropState # "waiting" ELSE ~PauseThreads
    /\ ActiveTask # NoNode
    /\ calls[ActiveTask].run < MaxStageRuns
    /\ runners' = runners + 1
    /\ cstage' = [cstage EXCEPT ![t] = ActiveTask]
    /\ cpc' = [cpc EXCEPT ![t] = "lock"]
    /\ calls' = Called(calls, ActiveTask, "run")
    /\ UNCHANGED <<BuilderHead, BuilderTail, built, linkSeq, NextTask, IntermediaryData,
                   InitialIntermediaryData, payloadDestroyed, stageK, stageSetupPending,
                   stageCS, stageNextIndex, ParallelQueue, PauseThreads, estep,
                   retired, destroyCount, dropState, dropInFlight>>
    /\ UNCHANGED otherThanChain

\* RunInner: IterationCS.lock(); if (SetupPending) { SetupPending = false;
\* Setup(...) begins } else IterationCS.unlock()
SetupSection(t) ==
    /\ cpc[t] = "lock"
    /\ stageCS[cstage[t]] = Free
    /\ IF stageSetupPending[cstage[t]]
       THEN /\ stageSetupPending' = [stageSetupPending EXCEPT ![cstage[t]] = FALSE]
            /\ stageCS' = [stageCS EXCEPT ![cstage[t]] = t]
            /\ calls' = Called(calls, cstage[t], "setup")
            /\ cpc' = [cpc EXCEPT ![t] = "setup"]
       ELSE /\ cpc' = [cpc EXCEPT ![t] = "claim"]
            /\ UNCHANGED <<stageSetupPending, stageCS, calls>>
    /\ UNCHANGED <<BuilderHead, BuilderTail, built, linkSeq, NextTask, IntermediaryData,
                   InitialIntermediaryData, payloadDestroyed, stageK, stageNextIndex,
                   ParallelQueue, runners, PauseThreads, cstage, estep, retired,
                   destroyCount, dropState, dropInFlight>>
    /\ UNCHANGED otherThanChain

\* Setup(...) returns; IterationCS.unlock()
SetupDone(t) ==
    /\ cpc[t] = "setup"
    /\ calls' = Called(calls, cstage[t], "setupRet")
    /\ stageCS' = [stageCS EXCEPT ![cstage[t]] = Free]
    /\ cpc' = [cpc EXCEPT ![t] = "claim"]
    /\ UNCHANGED <<BuilderHead, BuilderTail, built, linkSeq, NextTask, IntermediaryData,
                   InitialIntermediaryData, payloadDestroyed, stageK, stageSetupPending,
                   stageNextIndex, ParallelQueue, runners, PauseThreads, cstage, estep,
                   retired, destroyCount, dropState, dropInFlight>>
    /\ UNCHANGED otherThanChain

\* RunInner: ClaimedIndex = NextIndex.fetch_add(1); Loop(...) begins if
\* ClaimedIndex < Domain->size(), else RunInner returns.
Claim(t) ==
    /\ cpc[t] = "claim"
    /\ stageNextIndex' = [stageNextIndex EXCEPT ![cstage[t]] = @ + 1]
    /\ IF stageNextIndex[cstage[t]] < stageK[cstage[t]]
       THEN /\ calls' = Called(calls, cstage[t], "loop")
            /\ cpc' = [cpc EXCEPT ![t] = "inloop"]
       ELSE /\ cpc' = [cpc EXCEPT ![t] = "leave"]
            /\ UNCHANGED calls
    /\ UNCHANGED <<BuilderHead, BuilderTail, built, linkSeq, NextTask, IntermediaryData,
                   InitialIntermediaryData, payloadDestroyed, stageK, stageSetupPending,
                   stageCS, ParallelQueue, runners, PauseThreads, cstage, estep, retired,
                   destroyCount, dropState, dropInFlight>>
    /\ UNCHANGED otherThanChain

\* Loop(...) returns.
LoopDone(t) ==
    /\ cpc[t] = "inloop"
    /\ calls' = Called(calls, cstage[t], "loopRet")
    /\ cpc' = [cpc EXCEPT ![t] = "claim"]
    /\ UNCHANGED <<BuilderHead, BuilderTail, built, linkSeq, NextTask, IntermediaryData,
                   InitialIntermediaryData, payloadDestroyed, stageK, stageSetupPending,
                   stageCS, stageNextIndex, ParallelQueue, runners, PauseThreads, cstage,
                   estep, retired, destroyCount, dropState, dropInFlight>>
    /\ UNCHANGED otherThanChain

\* Run() has returned to the scheduler: the caller leaves the task, and the
\* last one to leave takes the task out of the holder to call Exhausted().
Leave(t) ==
    /\ cpc[t] = "leave"
    /\ runners' = runners - 1
    /\ IF IsLastRunner(runners - 1)
       THEN /\ ParallelQueue' = SelectSeq(ParallelQueue, LAMBDA x : x # cstage[t])
            /\ cpc' = [cpc EXCEPT ![t] = "exhausted"]
            /\ estep' = [estep EXCEPT ![t] = 1]
            /\ UNCHANGED cstage
       ELSE /\ cpc' = [cpc EXCEPT ![t] = "idle"]
            /\ cstage' = [cstage EXCEPT ![t] = NoNode]
            /\ UNCHANGED <<ParallelQueue, estep>>
    /\ UNCHANGED <<BuilderHead, BuilderTail, built, linkSeq, NextTask, IntermediaryData,
                   InitialIntermediaryData, payloadDestroyed, stageK, stageSetupPending,
                   stageCS, stageNextIndex, PauseThreads, calls, retired, destroyCount,
                   dropState, dropInFlight>>
    /\ UNCHANGED otherThanChain

\* Exhausted(): the next of its statements begins (Done(...) or BatonPass()),
\* or it returns.
ExhaustedStep(t) ==
    /\ cpc[t] = "exhausted"
    /\ LET c == IF estep[t] = 1 THEN Called(calls, cstage[t], "exhausted") ELSE calls
       IN  IF estep[t] > Len(ExhaustedSteps)
           THEN /\ cpc' = [cpc EXCEPT ![t] = "retire"]
                /\ calls' = c
           ELSE IF ExhaustedSteps[estep[t]] = "Done"
                THEN /\ cpc' = [cpc EXCEPT ![t] = "indone"]
                     /\ calls' = Called(c, cstage[t], "done")
                ELSE /\ cpc' = [cpc EXCEPT ![t] = "baton"]
                     /\ calls' = c
    /\ UNCHANGED <<BuilderHead, BuilderTail, built, linkSeq, NextTask, IntermediaryData,
                   InitialIntermediaryData, payloadDestroyed, stageK, stageSetupPending,
                   stageCS, stageNextIndex, ParallelQueue, runners, PauseThreads, cstage,
                   estep, retired, destroyCount, dropState, dropInFlight>>
    /\ UNCHANGED otherThanChain

\* Done(...) returns.
DoneReturn(t) ==
    /\ cpc[t] = "indone"
    /\ calls' = Called(calls, cstage[t], "doneRet")
    /\ cpc' = [cpc EXCEPT ![t] = "exhausted"]
    /\ estep' = [estep EXCEPT ![t] = @ + 1]
    /\ UNCHANGED <<BuilderHead, BuilderTail, built, linkSeq, NextTask, IntermediaryData,
                   InitialIntermediaryData, payloadDestroyed, stageK, stageSetupPending,
                   stageCS, stageNextIndex, ParallelQueue, runners, PauseThreads, cstage,
                   retired, destroyCount, dropState, dropInFlight>>
    /\ UNCHANGED otherThanChain

\* BatonPass(): if (NextTask) std::swap(NextTask->IntermediaryData, IntermediaryData)
BatonSwap(t) ==
    /\ cpc[t] = "baton"
    /\ IF NextTask[cstage[t]] # NoNode
       THEN /\ IntermediaryData' =
                    SwapIntermediaryData(IntermediaryData, cstage[t], NextTask[cstage[t]])
            /\ cpc' = [cpc EXCEPT ![t] = "enqueue"]
            /\ UNCHANGED estep
       ELSE /\ cpc' = [cpc EXCEPT ![t] = "exhausted"]
            /\ estep' = [estep EXCEPT ![t] = @ + 1]
            /\ UNCHANGED IntermediaryData
    /\ UNCHANGED <<BuilderHead, BuilderTail, built, linkSeq, NextTask,
                   InitialIntermediaryData, payloadDestroyed, stageK, stageSetupPending,
                   stageCS, stageNextIndex, ParallelQueue, runners, PauseThreads, cstage,
                   calls, retired, destroyCount, dropState, dropInFlight>>
    /\ UNCHANGED otherThanChain

\* BatonPass(): Scheduler::EnqueueParallel(NextTask)
BatonEnqueue(t) ==
    /\ cpc[t] = "enqueue"
    /\ ParallelQueue' = EnqueueParallel(ParallelQueue, NextTask[cstage[t]])
    /\ cpc' = [cpc EXCEPT ![t] = "clear"]
    /\ UNCHANGED <<BuilderHead, BuilderTail, built, linkSeq, NextTask, IntermediaryData,
                   InitialIntermediaryData, payloadDestroyed, stageK, stageSetupPending,
                   stageCS, stageNextIndex, runners, PauseThreads, cstage, estep, calls,
                   retired, destroyCount, dropState, dropInFlight>>
    /\ UNCHANGED otherThanChain

\* BatonPass(): NextTask = nullptr
BatonClear(t) ==
    /\ cpc[t] = "clear"
    /\ NextTask' = [NextTask EXCEPT ![cstage[t]] = LinkAfterBatonPass(@)]
    /\ cpc' = [cpc EXCEPT ![t] = "exhausted"]
    /\ estep' = [estep EXCEPT ![t] = @ + 1]
    /\ UNCHANGED <<BuilderHead, BuilderTail, built, linkSeq, IntermediaryData,
                   InitialIntermediaryData, payloadDestroyed, stageK, stageSetupPending,
                   stageCS, stageNextIndex, ParallelQueue, runners, PauseThreads, cstage,
                   calls, retired, destroyCount, dropState, dropInFlight>>
    /\ UNCHANGED otherThanChain

\* Exhausted() has returned: the scheduler retires the task and deletes it.
Retire(t) ==
    /\ cpc[t] = "retire"
    /\ Destroy(DeleteChain(NextTask, destroyCount, cstage[t]))
    /\ retired' = [retired EXCEPT ![cstage[t]] = TRUE]
    /\ cpc' = [cpc EXCEPT ![t] = "idle"]
    /\ cstage' = [cstage EXCEPT ![t] = NoNode]
    /\ UNCHANGED <<BuilderHead, BuilderTail, built, linkSeq, NextTask,
                   InitialIntermediaryData, stageK, stageSetupPending, stageCS,
                   stageNextIndex, ParallelQueue, runners, PauseThreads, estep, calls,
                   dropState, dropInFlight>>
    /\ UNCHANGED otherThanChain

\* LoadModelCommon: Scheduler::DropEverything() is called on the main thread;
\* the workers are told to take no new work.
DropBegin ==
    /\ cpc[Main] = "idle"
    /\ built
    /\ dropState = "none"
    /\ PauseThreads' = TRUE
    /\ dropState' = "waiting"
    /\ dropInFlight' = (ParallelQueue # <<>>)
    /\ UNCHANGED <<BuilderHead, BuilderTail, built, linkSeq, NextTask, IntermediaryData,
                   InitialIntermediaryData, payloadDestroyed, stageK, stageSetupPending,
                   stageCS, stageNextIndex, ParallelQueue, runners, cpc, cstage, estep,
                   calls, retired, destroyCount>>
    /\ UNCHANGED otherThanChain

\* DropEverything(): once no worker is inside a task, every task in the holder
\* is deleted, the holder is cleared and the call returns.
DropClear ==
    /\ dropState = "waiting"
    /\ WorkersQuiescent
    /\ Destroy(DeleteAll(NextTask, destroyCount, ParallelQueue))
    /\ ParallelQueue' = HolderAfterDrop(ParallelQueue)
    /\ runners' = 0
    /\ PauseThreads' = FALSE
    /\ dropState' = "returned"
    /\ UNCHANGED <<BuilderHead, BuilderTail, built, linkSeq, NextTask,
                   InitialIntermediaryData, stageK, stageSetupPending, stageCS,
                   stageNextIndex, cpc, cstage, estep, calls, retired, dropInFlight>>
    /\ UNCHANGED otherThanChain

\* The steps of thread t in the scheduler's parallel work.
ChainStep(t) ==
    \/ Enter(t)
    \/ SetupSection(t)
    \/ SetupDone(t)
    \/ Claim(t)
    \/ LoopDone(t)
    \/ Leave(t)
    \/ ExhaustedStep(t)
    \/ DoneReturn(t)
    \/ BatonSwap(t)
    \/ BatonEnqueue(t)
    \/ BatonClear(t)
    \/ Retire(t)

\* The chain when nothing calls DropEverything() or Teardown().
NextChainFair ==
    \/ \E s \in Nodes : Link(s)
    \/ BuilderRun
    \/ \E t \in Threads : ChainStep(t)

NextChain ==
    \/ \E s \in Nodes : Link(s)
    \/ BuilderRun
    \/ DropBegin
    \/ DropClear
    \/ \E t \in Threads :
        \/ Enter(t)
        \/ SetupSection(t)
        \/ SetupDone(t)
        \/ Claim(t)
        \/ LoopDone(t)
        \/ Leave(t)
        \/ ExhaustedStep(t)
        \/ DoneReturn(t)
        \/ BatonSwap(t)
        \/ BatonEnqueue(t)
        \/ BatonClear(t)
        \/ Retire(t)

----------------------------------------------------------------------------
\* The scheduler's one-shot, recurring and deferred-delete work (SpecAsync).
\* scheduler.cpp is the implementation of the interface in scheduler.h.

\* AsyncTasks submitted with EnqueueInbox.
NumAsyncTasks == 2
\* ContinuousTasks and deferred-delete tasks (or finalizers) enqueued.
NumContinuous == 1
NumDeletes == 1

AsyncTasks == 1..NumAsyncTasks
ContinuousTasks == 1..NumContinuous
DeleteTasks == 1..NumDeletes
NoTask == 0

\* ContinuousTask::Status
Statuses == {"Remove", "Skipped", "Converged", "Repainted"}

\* Calls of one AsyncTask: Run begun and returned, Done, Abort; deleted.
NoAsyncCalls == [run |-> 0, runRet |-> 0, done |-> 0, abort |-> 0, deleted |-> 0]

AsyncCalled(c, k, f) == [c EXCEPT ![k] = [c[k] EXCEPT ![f] = c[k][f] + 1]]

RECURSIVE CallAll(_, _, _)
CallAll(c, tasks, f) ==
    IF tasks = <<>> THEN c ELSE CallAll(AsyncCalled(c, Head(tasks), f), Tail(tasks), f)

Remove(queue, x) == SelectSeq(queue, LAMBDA y : y # x)
InSeq(queue) == {queue[i] : i \in 1..Len(queue)}

\* Where a task goes when its Run() has returned on a worker: to the Outbox,
\* for the main thread to call Done().
AfterRun_DoneOnWorker == "Done"
AfterRun == "Outbox"

\* Teardown(): the discarded tasks that get Abort() are those that never ran,
\* the ones still in the Inbox.
AbortedAtTeardown_Both(inbox, outbox) == inbox \o outbox
AbortedAtTeardown(inbox, outbox) == inbox

\* The steps of Advance() on the main thread.
AdvancePcs == {"outbox", "done", "continuous", "delete"}

\* One execution of main-thread-only work: what ran, on which thread, whether
\* the main thread was inside Advance(), and whether another thread was
\* inside such work at the time.
Execution(what, by) ==
    [what |-> what, by |-> by, inAdvance |-> apc \in AdvancePcs,
     concurrent |-> (by # Main /\ apc = "done"),
     phase |-> apc, task |-> NoTask, inUse |-> FALSE]

\* The AsyncTasks whose Run() works on the object that deferred delete d is
\* enqueued for; a task holds its reference from its submission until it is
\* deleted.
ReferencedBy(d) == {k \in AsyncTasks : k = d}

\* The delete is enqueued by the destructor of the object
\* (Drawable::~Drawable), which runs when the last reference is released.
Unreferenced_Any(d) == TRUE
Unreferenced(d) ==
    \A k \in ReferencedBy(d) : k \in submitted.inbox => acalls[k].deleted >= 1

\* The execution of deferred delete d, and whether a worker is inside Run()
\* of a task that references its object at the time.
DeleteExecution(d) ==
    [Execution("Delete", Main) EXCEPT
        !.task = d,
        !.inUse = \E w \in Workers : wpc[w] = "run" /\ wtask[w] \in ReferencedBy(d)]

AsyncWorkersIdle == \A w \in Workers : wpc[w] = "idle"

InitAsync ==
    /\ Inbox = <<>>
    /\ Outbox = <<>>
    /\ ContinuousQueue = <<>>
    /\ DeleteQueue = <<>>
    /\ submitted = [inbox |-> {}, continuous |-> {}, delete |-> {}]
    /\ acalls = [k \in AsyncTasks |-> NoAsyncCalls]
    /\ wpc = [w \in Workers |-> "idle"]
    /\ wtask = [w \in Workers |-> NoTask]
    /\ apc = "idle"
    /\ mtask = NoTask
    /\ contLeft = <<>>
    /\ Live = TRUE
    /\ asyncPaused = FALSE
    /\ execLog = {}

ParkedAsync ==
    /\ Inbox = <<>>
    /\ Outbox = <<>>
    /\ ContinuousQueue = <<>>
    /\ DeleteQueue = <<>>
    /\ submitted = <<>>
    /\ acalls = <<>>
    /\ wpc = <<>>
    /\ wtask = <<>>
    /\ apc = "idle"
    /\ mtask = NoTask
    /\ contLeft = <<>>
    /\ Live = FALSE
    /\ asyncPaused = FALSE
    /\ execLog = {}

\* Scheduler::EnqueueInbox(Task), from any thread while the scheduler is live.
EnqueueInbox(k) ==
    /\ Live
    /\ k \notin submitted.inbox
    /\ \A d \in DeleteTasks : k \in ReferencedBy(d) => d \notin submitted.delete
    /\ Inbox' = Append(Inbox, k)
    /\ submitted' = [submitted EXCEPT !.inbox = @ \cup {k}]
    /\ UNCHANGED <<Outbox, ContinuousQueue, DeleteQueue, acalls, wpc, wtask, apc, mtask,
                   contLeft, Live, asyncPaused, execLog>>
    /\ UNCHANGED otherThanAsync

\* Scheduler::EnqueueContinuous(Task).
EnqueueContinuous(c) ==
    /\ Live
    /\ c \notin submitted.continuous
    /\ ContinuousQueue' = Append(ContinuousQueue, c)
    /\ submitted' = [submitted EXCEPT !.continuous = @ \cup {c}]
    /\ UNCHANGED <<Inbox, Outbox, DeleteQueue, acalls, wpc, wtask, apc, mtask,
                   contLeft, Live, asyncPaused, execLog>>
    /\ UNCHANGED otherThanAsync

\* Scheduler::EnqueueDelete(Task) or EnqueueDelete(Finalizer), from any thread.
EnqueueDelete(d) ==
    /\ Live
    /\ d \notin submitted.delete
    /\ Unreferenced(d)
    /\ DeleteQueue' = Append(DeleteQueue, d)
    /\ submitted' = [submitted EXCEPT !.delete = @ \cup {d}]
    /\ UNCHANGED <<Inbox, Outbox, ContinuousQueue, acalls, wpc, wtask, apc, mtask,
                   contLeft, Live, asyncPaused, execLog>>
    /\ UNCHANGED otherThanAsync

\* A worker pops the Inbox and calls the task's Run().
WorkerPop(w) ==
    /\ Live
    /\ ~asyncPaused
    /\ wpc[w] = "idle"
    /\ Inbox # <<>>
    /\ Inbox' = Tail(Inbox)
    /\ wtask' = [wtask EXCEPT ![w] = Head(Inbox)]
    /\ wpc' = [wpc EXCEPT ![w] = "run"]
    /\ acalls' = AsyncCalled(acalls, Head(Inbox), "run")
    /\ UNCHANGED <<Outbox, ContinuousQueue, DeleteQueue, submitted, apc, mtask,
                   contLeft, Live, asyncPaused, execLog>>
    /\ UNCHANGED otherThanAsync

\* Run() returns on the worker, which moves the task to the Outbox.
WorkerRunReturn(w) ==
    /\ wpc[w] = "run"
    /\ wpc' = [wpc EXCEPT ![w] = "idle"]
    /\ wtask' = [wtask EXCEPT ![w] = NoTask]
    /\ IF AfterRun = "Outbox"
       THEN /\ Outbox' = Append(Outbox, wtask[w])
            /\ acalls' = AsyncCalled(acalls, wtask[w], "runRet")
            /\ UNCHANGED execLog
       ELSE /\ acalls' = AsyncCalled(AsyncCalled(AsyncCalled(acalls, wtask[w], "runRet"),
                                                 wtask[w], "done"), wtask[w], "deleted")
            /\ execLog' = execLog \cup {Execution("Done", w)}
            /\ UNCHANGED Outbox
    /\ UNCHANGED <<Inbox, ContinuousQueue, DeleteQueue, submitted, apc, mtask,
                   contLeft, Live, asyncPaused>>
    /\ UNCHANGED otherThanAsync

\* Scheduler::Advance() is called on the main thread, once per tick.
AdvanceBegin ==
    /\ Live
    /\ apc = "idle"
    /\ apc' = "outbox"
    /\ UNCHANGED <<Inbox, Outbox, ContinuousQueue, DeleteQueue, submitted, acalls, wpc,
                   wtask, mtask, contLeft, Live, asyncPaused, execLog>>
    /\ UNCHANGED otherThanAsync

\* Advance(): pops the Outbox and calls the task's Done(); with the Outbox
\* empty it goes on to the continuous tasks queued at that time.
AdvanceOutbox ==
    /\ apc = "outbox"
    /\ IF Outbox # <<>>
       THEN /\ Outbox' = Tail(Outbox)
            /\ mtask' = Head(Outbox)
            /\ apc' = "done"
            /\ acalls' = AsyncCalled(acalls, Head(Outbox), "done")
            /\ execLog' = execLog \cup {Execution("Done", Main)}
            /\ UNCHANGED contLeft
       ELSE /\ apc' = "continuous"
            /\ contLeft' = ContinuousQueue
            /\ UNCHANGED <<Outbox, mtask, acalls, execLog>>
    /\ UNCHANGED <<Inbox, ContinuousQueue, DeleteQueue, submitted, wpc, wtask, Live,
                   asyncPaused>>
    /\ UNCHANGED otherThanAsync

\* Done() returns; the task is deleted.
AdvanceDoneReturn ==
    /\ apc = "done"
    /\ apc' = "outbox"
    /\ mtask' = NoTask
    /\ acalls' = AsyncCalled(acalls, mtask, "deleted")
    /\ UNCHANGED <<Inbox, Outbox, ContinuousQueue, DeleteQueue, submitted, wpc, wtask,
                   contLeft, Live, asyncPaused, execLog>>
    /\ UNCHANGED otherThanAsync

\* Advance(): each continuous task is consulted once; Remove drops it, any
\* other status keeps it queued.
AdvanceContinuous(status) ==
    /\ apc = "continuous"
    /\ IF contLeft # <<>>
       THEN /\ contLeft' = Tail(contLeft)
            /\ execLog' = execLog \cup {Execution("ContinuousRun", Main)}
            /\ ContinuousQueue' = IF status = "Remove"
                                  THEN Remove(ContinuousQueue, Head(contLeft))
                                  ELSE ContinuousQueue
            /\ UNCHANGED apc
       ELSE /\ apc' = "delete"
            /\ status = "Remove"
            /\ UNCHANGED <<contLeft, execLog, ContinuousQueue>>
    /\ UNCHANGED <<Inbox, Outbox, DeleteQueue, submitted, acalls, wpc, wtask, mtask,
                   Live, asyncPaused>>
    /\ UNCHANGED otherThanAsync

\* Advance(): at the end of the tick the deferred deletes run, then Advance()
\* returns.
AdvanceDelete ==
    /\ apc = "delete"
    /\ IF DeleteQueue # <<>>
       THEN /\ DeleteQueue' = Tail(DeleteQueue)
            /\ execLog' = execLog \cup {DeleteExecution(Head(DeleteQueue))}
            /\ UNCHANGED apc
       ELSE /\ apc' = "idle"
            /\ UNCHANGED <<DeleteQueue, execLog>>
    /\ UNCHANGED <<Inbox, Outbox, ContinuousQueue, submitted, acalls, wpc, wtask, mtask,
                   contLeft, Live, asyncPaused>>
    /\ UNCHANGED otherThanAsync

\* Scheduler::DropEverything() on the main thread: the workers are told to
\* take no new work.
DropEverythingBegin ==
    /\ Live
    /\ apc = "idle"
    /\ apc' = "drop"
    /\ asyncPaused' = TRUE
    /\ UNCHANGED <<Inbox, Outbox, ContinuousQueue, DeleteQueue, submitted, acalls, wpc,
                   wtask, mtask, contLeft, Live, execLog>>
    /\ UNCHANGED otherThanAsync

\* DropEverything(): with no worker inside a task, the holders are cleared.
\* The discarded tasks are deleted; none of Run(), Done(), Abort() is called.
DropEverythingClear ==
    /\ apc = "drop"
    /\ AsyncWorkersIdle
    /\ acalls' = CallAll(acalls, Inbox \o Outbox, "deleted")
    /\ Inbox' = <<>>
    /\ Outbox' = <<>>
    /\ ContinuousQueue' = <<>>
    /\ DeleteQueue' = <<>>
    /\ asyncPaused' = FALSE
    /\ apc' = "idle"
    /\ UNCHANGED <<submitted, wpc, wtask, mtask, contLeft, Live, execLog>>
    /\ UNCHANGED otherThanAsync

\* Scheduler::Teardown() on the main thread: the scheduler stops being live.
TeardownBegin ==
    /\ Live
    /\ apc = "idle"
    /\ apc' = "teardown"
    /\ Live' = FALSE
    /\ UNCHANGED <<Inbox, Outbox, ContinuousQueue, DeleteQueue, submitted, acalls, wpc,
                   wtask, mtask, contLeft, asyncPaused, execLog>>
    /\ UNCHANGED otherThanAsync

\* Teardown(): the workers are joined; the tasks left are discarded, with
\* Abort() on those that never ran.
TeardownJoin ==
    /\ apc = "teardown"
    /\ AsyncWorkersIdle
    /\ acalls' = CallAll(CallAll(acalls, AbortedAtTeardown(Inbox, Outbox), "abort"),
                         Inbox \o Outbox, "deleted")
    /\ Inbox' = <<>>
    /\ Outbox' = <<>>
    /\ ContinuousQueue' = <<>>
    /\ DeleteQueue' = <<>>
    /\ apc' = "dead"
    /\ UNCHANGED <<submitted, wpc, wtask, mtask, contLeft, Live, asyncPaused, execLog>>
    /\ UNCHANGED otherThanAsync

NextAsync ==
    \/ \E k \in AsyncTasks : EnqueueInbox(k)
    \/ \E c \in ContinuousTasks : EnqueueContinuous(c)
    \/ \E d \in DeleteTasks : EnqueueDelete(d)
    \/ \E w \in Workers : WorkerPop(w)
    \/ \E w \in Workers : WorkerRunReturn(w)
    \/ AdvanceBegin
    \/ AdvanceOutbox
    \/ AdvanceDoneReturn
    \/ \E status \in Statuses : AdvanceContinuous(status)
    \/ AdvanceDelete
    \/ DropEverythingBegin
    \/ DropEverythingClear
    \/ TeardownBegin
    \/ TeardownJoin

----------------------------------------------------------------------------
\* The shape cache of sdf_model.cpp (SpecCache): SDFModel instances created
\* on several threads, their Drawables, and the prune finalizer that the
\* scheduler runs on the main thread.

\* Evaluator identities: size_t Key = (size_t)(InEvaluator.get()).
NumKeys == 2
\* SDFModel instances created in one run.
MaxModels == 3

Keys == 1..NumKeys
ModelIds == 1..MaxModels
DrawableIds == 1..MaxModels
NoDrawable == 0
NoModel == 0

\* An SDFModel before it is allocated, and a Drawable before make_shared.
\* Evaluator trees: the tree the caller passes in for an identity, the tree
\* InEvaluator->Copy() allocates for a new Drawable, and nullptr.
NullTree == <<"null", 0>>
CallerTree(key) == <<"caller", key>>
Copy_Shared(tree, owner) == tree
Copy(tree, owner) == <<"copy", owner>>

NoModelYet ==
    [state |-> "none", Key |-> 0, Painter |-> NoDrawable, Evaluator |-> NullTree,
     Origin |-> NullTree]
NoDrawableYet ==
    [state |-> "none", Key |-> 0, refs |-> 0, building |-> FALSE, cancelled |-> FALSE,
     populates |-> 0, creator |-> NoModel, Evaluator |-> NullTree, Origin |-> NullTree]

\* std::weak_ptr::expired() and lock() of a cache entry's DrawableWeakRef.
Expired_Never(ds, entry) == FALSE
Expired(ds, entry) == ds[entry.second].refs = 0

\* std::scoped_lock CacheLock(DrawableCacheCS) blocks while another thread
\* holds the mutex.
CacheCanLock_NoMutex == TRUE
CacheCanLock == DrawableCacheCS = Free

\* PruneStaleDrawableFromCache: the cache without its first expired entry.
EraseFirstExpired_All(ds, cache) == SelectSeq(cache, LAMBDA entry : ~Expired(ds, entry))
RECURSIVE EraseFirstExpired(_, _)
EraseFirstExpired(ds, cache) ==
    IF cache = <<>> THEN <<>>
    ELSE IF Expired(ds, Head(cache)) THEN Tail(cache)
    ELSE <<Head(cache)>> \o EraseFirstExpired(ds, Tail(cache))

\* The number of Drawables and of SDFModels allocated so far.
DrawableCount == Cardinality({d \in DrawableIds : Drawables[d].state # "none"})
ModelCount == Cardinality({i \in ModelIds : Models[i].state # "none"})

\* Painter.reset(): one strong reference less; with the last one gone
\* Drawable::~Drawable runs.
Release(ds, d) ==
    [ds EXCEPT ![d] = [@ EXCEPT !.refs = @ - 1,
                                !.state = IF ds[d].refs = 1 THEN "destroyed" ELSE @,
                                !.Evaluator = IF ds[d].refs = 1 THEN NullTree ELSE @,
                                !.building = IF ds[d].refs = 1 THEN FALSE ELSE @]]

\* The evaluator trees the caller allocates at one address, one after the
\* other (the first, then MaxReuse more): size_t Key = (size_t)(InEvaluator.get()) is the address, and the
\* tree InEvaluator points to is the one that lives there now.
MaxReuse == 1
InEvaluator(key) == <<"tree", key, EvaluatorAt[key]>>

InitCache ==
    /\ DrawableCache = <<>>
    /\ DrawableCacheCS = Free
    /\ Drawables = [d \in DrawableIds |-> NoDrawableYet]
    /\ Models = [i \in ModelIds |-> NoModelYet]
    /\ mpc = [t \in Workers |-> "idle"]
    /\ mthis = [t \in Workers |-> NoModel]
    /\ mpos = [t \in Workers |-> 0]
    /\ PendingPrunes = 0
    /\ pruneOverlapped = FALSE
    /\ EvaluatorAt = [key \in Keys |-> 1]

ParkedCache ==
    /\ DrawableCache = <<>>
    /\ DrawableCacheCS = Free
    /\ Drawables = <<>>
    /\ Models = <<>>
    /\ mpc = <<>>
    /\ mthis = <<>>
    /\ mpos = <<>>
    /\ PendingPrunes = 0
    /\ pruneOverlapped = FALSE
    /\ EvaluatorAt = <<>>

\* new SDFModel(InEvaluator, ...) on thread t: the constructor starts with
\* Painter null, computes Key and takes the cache lock
\* (std::scoped_lock CacheLock(DrawableCacheCS)); the scan starts at begin().
Construct(t, key) ==
    /\ mpc[t] = "idle"
    /\ ModelCount < MaxModels
    /\ CacheCanLock
    /\ LET this == ModelCount + 1 IN
        /\ Models' = [Models EXCEPT ![this] =
                        [state |-> "constructing", Key |-> key, Painter |-> NoDrawable,
                         Evaluator |-> NullTree, Origin |-> InEvaluator(key)]]
        /\ mthis' = [mthis EXCEPT ![t] = this]
    /\ DrawableCacheCS' = t
    /\ mpos' = [mpos EXCEPT ![t] = 1]
    /\ mpc' = [mpc EXCEPT ![t] = "scan"]
    /\ UNCHANGED <<DrawableCache, Drawables, PendingPrunes, pruneOverlapped>>
    /\ UNCHANGED <<EvaluatorAt, otherThanCache>>

\* The scoped_lock is released and the constructor returns.
Unlocked(t) == IF DrawableCacheCS = t THEN Free ELSE DrawableCacheCS

\* for (auto& Entry : DrawableCache): one entry is examined. A live entry
\* with the Key ends the scan with Painter set; the lock is released and
\* the constructor returns.
CacheScan(t) ==
    /\ mpc[t] = "scan"
    /\ mpos[t] <= Len(DrawableCache)
    /\ LET Entry == DrawableCache[mpos[t]] IN
       IF Entry.first = Models[mthis[t]].Key /\ ~Expired(Drawables, Entry)
       THEN /\ Models' = [Models EXCEPT ![mthis[t]] =
                            [state |-> "alive", Key |-> @.Key, Painter |-> Entry.second,
                             Evaluator |-> Drawables[Entry.second].Evaluator,
                             Origin |-> @.Origin]]
            /\ Drawables' = [Drawables EXCEPT ![Entry.second].refs = @ + 1]
            /\ DrawableCacheCS' = Unlocked(t)
            /\ mthis' = [mthis EXCEPT ![t] = NoModel]
            /\ mpc' = [mpc EXCEPT ![t] = "idle"]
            /\ mpos' = [mpos EXCEPT ![t] = 0]
       ELSE /\ mpos' = [mpos EXCEPT ![t] = @ + 1]
            /\ UNCHANGED <<Models, Drawables, DrawableCacheCS, mthis, mpc>>
    /\ UNCHANGED <<DrawableCache, PendingPrunes, pruneOverlapped>>
    /\ UNCHANGED <<EvaluatorAt, otherThanCache>>

\* if (!Painter): the scan found no live entry; the evaluator is copied, a
\* Drawable is made, its entry appended and Sodapop::Populate started; the
\* lock is released and the constructor returns.
CacheInsert(t) ==
    /\ mpc[t] = "scan"
    /\ mpos[t] > Len(DrawableCache)
    /\ LET NewPainter == DrawableCount + 1
           NewEvaluator == Copy(CallerTree(Models[mthis[t]].Key), NewPainter)
       IN
        /\ Drawables' = [Drawables EXCEPT ![NewPainter] =
                            [state |-> "alive", Key |-> Models[mthis[t]].Key, refs |-> 1,
                             building |-> TRUE, cancelled |-> FALSE, populates |-> 1,
                             creator |-> mthis[t],
                             Evaluator |-> NewEvaluator,
                             Origin |-> Models[mthis[t]].Origin]]
        /\ DrawableCache' = Append(DrawableCache,
                                   [first |-> Models[mthis[t]].Key, second |-> NewPainter])
        /\ Models' = [Models EXCEPT ![mthis[t]] =
                        [state |-> "alive", Key |-> @.Key, Painter |-> NewPainter,
                         Evaluator |-> NewEvaluator, Origin |-> @.Origin]]
    /\ DrawableCacheCS' = Unlocked(t)
    /\ mthis' = [mthis EXCEPT ![t] = NoModel]
    /\ mpc' = [mpc EXCEPT ![t] = "idle"]
    /\ mpos' = [mpos EXCEPT ![t] = 0]
    /\ UNCHANGED <<PendingPrunes, pruneOverlapped>>
    /\ UNCHANGED <<EvaluatorAt, otherThanCache>>

\* SDFModel::~SDFModel: Painter.reset(). When that was the last reference,
\* Drawable::~Drawable enqueues the prune finalizer.
DestroyModel(i) ==
    /\ Models[i].state = "alive"
    /\ Models' = [Models EXCEPT ![i].state = "destroyed", ![i].Evaluator = NullTree]
    /\ Drawables' = Release(Drawables, Models[i].Painter)
    /\ PendingPrunes' = PendingPrunes + (IF Drawables[Models[i].Painter].refs = 1 THEN 1 ELSE 0)
    /\ UNCHANGED <<DrawableCache, DrawableCacheCS, mpc, mthis, mpos, pruneOverlapped>>
    /\ UNCHANGED <<EvaluatorAt, otherThanCache>>

\* The build pipeline started by Sodapop::Populate completes.
BuildComplete(d) ==
    /\ Drawables[d].building
    /\ Drawables' = [Drawables EXCEPT ![d].building = FALSE]
    /\ UNCHANGED <<DrawableCache, DrawableCacheCS, Models, mpc, mthis, mpos, PendingPrunes,
                   pruneOverlapped>>
    /\ UNCHANGED <<EvaluatorAt, otherThanCache>>

\* PruneStaleDrawableFromCache, run by the scheduler on the main thread as a
\* deferred delete. It does not take DrawableCacheCS.
PruneStaleDrawableFromCache ==
    /\ PendingPrunes > 0
    /\ PendingPrunes' = PendingPrunes - 1
    /\ DrawableCache' = EraseFirstExpired(Drawables, DrawableCache)
    /\ pruneOverlapped' = (pruneOverlapped \/ DrawableCacheCS # Free)
    /\ UNCHANGED <<DrawableCacheCS, Drawables, Models, mpc, mthis, mpos>>
    /\ UNCHANGED <<EvaluatorAt, otherThanCache>>

NextCache ==
    \/ \E t \in Workers, key \in Keys : Construct(t, key)
    \/ \E t \in Workers : CacheScan(t)
    \/ \E t \in Workers : CacheInsert(t)
    \/ \E i \in ModelIds : DestroyModel(i)
    \/ \E d \in DrawableIds : BuildComplete(d)
    \/ PruneStaleDrawableFromCache

\* The Drawables after DropEverything() deleted the build chains in the
\* parallel holder: a build in flight is cancelled and never completes.
CancelBuilds(ds) ==
    [d \in DrawableIds |->
        IF ds[d].building THEN [ds[d] EXCEPT !.building = FALSE, !.cancelled = TRUE]
        ELSE ds[d]]

\* Scheduler::DropEverything() on the main thread (LoadModelCommon): every
\* holder is cleared. The builds in flight are cancelled, and the prune
\* finalizers waiting in the delete queue are dropped without being run.
DropEverythingCache ==
    /\ PendingPrunes > 0 \/ \E d \in DrawableIds : Drawables[d].building
    /\ PendingPrunes' = 0
    /\ Drawables' = CancelBuilds(Drawables)
    /\ UNCHANGED <<DrawableCache, DrawableCacheCS, Models, mpc, mthis, mpos,
                   pruneOverlapped>>
    /\ UNCHANGED <<EvaluatorAt, otherThanCache>>

\* The cache with DropEverything() among the main thread's calls.
NextCacheDrop ==
    \/ \E t \in Workers, key \in Keys : Construct(t, key)
    \/ \E t \in Workers : CacheScan(t)
    \/ \E t \in Workers : CacheInsert(t)
    \/ \E i \in ModelIds : DestroyModel(i)
    \/ \E d \in DrawableIds : BuildComplete(d)
    \/ PruneStaleDrawableFromCache
    \/ DropEverythingCache

\* The caller releases its last reference to the evaluator at address key
\* and allocates another tree, which the allocator places at the address
\* just freed. The cache holds the address only as a size_t, and a Drawable
\* holds the copy, so neither keeps the first evaluator alive. No
\* constructor call is using the evaluator (it is passed by reference).
ReuseAddress(key) ==
    /\ EvaluatorAt[key] <= MaxReuse
    /\ \A t \in Workers : mpc[t] # "idle" => Models[mthis[t]].Key # key
    /\ EvaluatorAt' = [EvaluatorAt EXCEPT ![key] = @ + 1]
    /\ UNCHANGED <<DrawableCache, DrawableCacheCS, Drawables, Models, mpc, mthis, mpos,
                   PendingPrunes, pruneOverlapped>>
    /\ UNCHANGED otherThanCache

\* The cache with callers that free evaluators and allocate new ones.
NextCacheReuse ==
    \/ \E t \in Workers, key \in Keys : Construct(t, key)
    \/ \E t \in Workers : CacheScan(t)
    \/ \E t \in Workers : CacheInsert(t)
    \/ \E i \in ModelIds : DestroyModel(i)
    \/ \E d \in DrawableIds : BuildComplete(d)
    \/ PruneStaleDrawableFromCache
    \/ \E key \in Keys : ReuseAddress(key)

----------------------------------------------------------------------------
\* SDFModel::Create's registration against MeshReady, for the instances of
\* one Drawable (SpecMesh).

\* const size_t RangeLimit = 512; // Arbitrary
RangeLimit == 512
\* Material slots of the Drawable.
NumSlots == 1
\* VertexGroup.Vertices.size() of a material slot.
VertexCounts == {0, 1, 512, 513, 1025}

\* An SDFModel before SDFModel::Create allocates it. populated counts the
\* runs of MeshReadyInner on the model.
NoMeshModel ==
    [state |-> "none", registered |-> FALSE, populated |-> 0, ColoringGroups |-> <<>>]

\* const size_t Range = glm::min(RemainingRange, RangeLimit)
ChunkRange_Whole(RemainingRange) == RangeLimit
ChunkRange(RemainingRange) == Min(RemainingRange, RangeLimit)

\* MeshReadyInner, the while loop: the InstanceColoringGroups of one
\* MaterialVertexGroup, as (&VertexGroup, Offset, Range).
RECURSIVE SplitVertexGroup(_, _, _)
SplitVertexGroup(slot, Offset, RemainingRange) ==
    IF RemainingRange > 0
    THEN LET Range == ChunkRange(RemainingRange) IN
         <<[VertexGroup |-> slot, Offset |-> Offset, Range |-> Range]>>
            \o SplitVertexGroup(slot, Offset + Range, RemainingRange - Range)
    ELSE <<>>

\* MeshReadyInner, the for loop over Painter->MaterialSlots.
RECURSIVE SplitMaterialSlots(_, _)
SplitMaterialSlots(slots, slot) ==
    IF slot > Len(slots) THEN <<>>
    ELSE SplitVertexGroup(slot, 0, slots[slot]) \o SplitMaterialSlots(slots, slot + 1)

\* MeshReadyInner(Model, Painter): the model's coloring groups are built.
MeshReadyInner(ms, i) ==
    [ms EXCEPT ![i].populated = @ + 1,
               ![i].ColoringGroups = @ \o SplitMaterialSlots(MaterialSlots, 1)]

\* PaintingSet::GlobalApply(ReadyThunk): MeshReadyInner on every registered
\* model (all models here have Model->Painter == Painter).
GlobalApplyReadyThunk(ms) ==
    [i \in ModelIds |->
        IF ms[i].state = "alive" /\ ms[i].registered THEN MeshReadyInner(ms, i)[i]
        ELSE ms[i]]

\* A thread is inside SDFModel::Create, past the constructor.
CreateInFlight == \E t \in Workers : rpc[t] # "idle"

\* bool MeshUploaded = false: nothing of the Drawable is on the renderer.
NoUpload ==
    /\ MeshUploaded = FALSE
    /\ uploadedMesh = "none"
    /\ uploads = 0

InitMesh ==
    /\ MaterialSlots \in [1..NumSlots -> VertexCounts]
    /\ MeshAvailable = FALSE
    /\ ready = "none"
    /\ meshModels = [i \in ModelIds |-> NoMeshModel]
    /\ rpc = [t \in Workers |-> "idle"]
    /\ rthis = [t \in Workers |-> NoModel]
    /\ meshReadyOverlapped = FALSE
    /\ NoUpload

ParkedMesh ==
    /\ MaterialSlots = <<>>
    /\ MeshAvailable = FALSE
    /\ ready = "none"
    /\ meshModels = <<>>
    /\ rpc = <<>>
    /\ rthis = <<>>
    /\ meshReadyOverlapped = FALSE
    /\ NoUpload

\* SDFModel::Create on thread t: new SDFModel(...) has returned with Painter
\* bound to the Drawable.
Create(t) ==
    /\ rpc[t] = "idle"
    /\ \E i \in ModelIds :
        /\ meshModels[i].state = "none"
        /\ \A j \in ModelIds : j < i => meshModels[j].state # "none"
        /\ meshModels' = [meshModels EXCEPT ![i].state = "alive"]
        /\ rthis' = [rthis EXCEPT ![t] = i]
    /\ rpc' = [rpc EXCEPT ![t] = "register"]
    /\ meshReadyOverlapped' = (meshReadyOverlapped \/ ready = "apply")
    /\ UNCHANGED <<MaterialSlots, MeshAvailable, ready>>
    /\ UNCHANGED <<drawVars, otherThanMesh>>

\* SDFModel::RegisterNewModel, first statement: a model created after the
\* mesh became available builds its coloring groups itself.
RegisterNewModel(t) ==
    /\ rpc[t] = "register"
    /\ meshModels' = IF MeshAvailable THEN MeshReadyInner(meshModels, rthis[t])
                     ELSE meshModels
    /\ rpc' = [rpc EXCEPT ![t] = "locus"]
    /\ UNCHANGED <<MaterialSlots, MeshAvailable, ready, rthis, meshReadyOverlapped>>
    /\ UNCHANGED <<drawVars, otherThanMesh>>

\* Locus->RegisterModel(NewModel); SDFModel::Create returns.
RegisterModel(t) ==
    /\ rpc[t] = "locus"
    /\ meshModels' = [meshModels EXCEPT ![rthis[t]].registered = TRUE]
    /\ rthis' = [rthis EXCEPT ![t] = NoModel]
    /\ rpc' = [rpc EXCEPT ![t] = "idle"]
    /\ UNCHANGED <<MaterialSlots, MeshAvailable, ready, meshReadyOverlapped>>
    /\ UNCHANGED <<drawVars, otherThanMesh>>

\* The build pipeline completes and calls MeshReady(Painter):
\* Painter->MeshAvailable = true.
MeshReady ==
    /\ ready = "none"
    /\ MeshAvailable' = TRUE
    /\ ready' = "apply"
    /\ meshReadyOverlapped' = (meshReadyOverlapped \/ CreateInFlight)
    /\ UNCHANGED <<MaterialSlots, meshModels, rpc, rthis>>
    /\ UNCHANGED <<drawVars, otherThanMesh>>

\* MeshReady: PaintingSet::GlobalApply(ReadyThunk), then the call returns.
MeshReadyApply ==
    /\ ready = "apply"
    /\ meshModels' = GlobalApplyReadyThunk(meshModels)
    /\ ready' = "done"
    /\ UNCHANGED <<MaterialSlots, MeshAvailable, rpc, rthis, meshReadyOverlapped>>
    /\ UNCHANGED <<drawVars, otherThanMesh>>

\* SDFModel::~SDFModel of a registered instance.
DestroyMeshModel(i) ==
    /\ meshModels[i].state = "alive"
    /\ meshModels[i].registered
    /\ meshModels' = [meshModels EXCEPT ![i].state = "destroyed"]
    /\ UNCHANGED <<MaterialSlots, MeshAvailable, ready, rpc, rthis, meshReadyOverlapped>>
    /\ UNCHANGED <<drawVars, otherThanMesh>>

NextMesh ==
    \/ \E t \in Workers : Create(t)
    \/ \E t \in Workers : RegisterNewModel(t)
    \/ \E t \in Workers : RegisterModel(t)
    \/ MeshReady
    \/ MeshReadyApply
    \/ \E i \in ModelIds : DestroyMeshModel(i)

\* enum class VisibilityStates; std::atomic<VisibilityStates> Visibility
VisibilityStates == {"Invisible", "Imminent", "Visible"}

\* Drawable::DrawGL4, if (!MeshUploaded): IndexBuffer.Upload(Indices...) and
\* PositionBuffer.Upload(Positions...) send what the vectors hold now.
UploadedNow == IF MeshAvailable THEN "finished" ELSE "unfinished"

\* SDFModel::DrawGL4(CameraOrigin) on instance i whose Visibility is vis,
\* with the Painter->DrawGL4(this) call it makes.
DrawGL4(i, vis) ==
    /\ meshModels[i].state = "alive"
    /\ meshModels[i].registered
    /\ IF vis = "Visible" /\ ~MeshUploaded
       THEN /\ uploadedMesh' = UploadedNow
            /\ uploads' = Min(2, uploads + 1)
            /\ MeshUploaded' = TRUE
       ELSE UNCHANGED drawVars
    /\ UNCHANGED <<MaterialSlots, MeshAvailable, ready, meshModels, rpc, rthis,
                   meshReadyOverlapped>>
    /\ UNCHANGED otherThanMesh

\* The instances of one Drawable are created, made ready and drawn.
NextDraw ==
    \/ \E t \in Workers : Create(t)
    \/ \E t \in Workers : RegisterNewModel(t)
    \/ \E t \in Workers : RegisterModel(t)
    \/ MeshReady
    \/ MeshReadyApply
    \/ \E i \in ModelIds : DestroyMeshModel(i)
    \/ \E i \in ModelIds : \E vis \in VisibilityStates : DrawGL4(i, vis)

----------------------------------------------------------------------------
(***************************************************************************)
(* The repaint fence: FlagSceneRepaint, PostPendingRepaintRequest and      *)
(* InstanceColoringGroup::StartRepaint.                                    *)
(***************************************************************************)

\* The largest value the fence is followed to.
MaxFence == 3
\* The most FlagSceneRepaint calls followed between two posts.
MaxFlags == 2
\* The coloring groups followed.
ColoringGroupIds == {1, 2}

\* std::atomic<uint64_t> RepaintFence = 1
InitialRepaintFence == 1
\* uint64_t LastRepaint = 0
InitialLastRepaint == 0

\* PostPendingRepaintRequest: if (RepaintRequested) RepaintFence.fetch_add(1)
FenceAfterPost_Wrapped(fence, requested) ==
    IF requested THEN (fence + 1) % MaxFence ELSE fence
FenceAfterPost_Always(fence, requested) == fence + 1
FenceAfterPost(fence, requested) == IF requested THEN fence + 1 ELSE fence

\* The painting sets of the main environment.
NumPaintingSets == 2
\* The values of UploadedView.WorldToView followed; LastWorldToView starts
\* as glm::identity<glm::mat4>().
Views == {"identity", "a", "b"}

\* RenderFrame: if (UploadedView.WorldToView != LastWorldToView)
ViewDiffers_Never(view, last) == FALSE
ViewDiffers(view, last) == view # last

\* No thread is inside StartRepaint and none has reported stale.
NoStartRepaint ==
    /\ spc = [t \in Workers |-> "idle"]
    /\ sgroup = [t \in Workers |-> 0]
    /\ sfence = [t \in Workers |-> 0]
    /\ scurrent = [t \in Workers |-> FALSE]
    /\ staleReports = [p \in ColoringGroupIds \X (1..(MaxFence + 1)) |-> 0]

\* No RenderFrame call is in progress.
NoFrame ==
    /\ LastWorldToView = "identity"
    /\ WorldToView = "identity"
    /\ AnyReady = FALSE
    /\ fpc = "idle"
    /\ rendered = 0
    /\ prevView = "identity"
    /\ fenceAtStart = InitialRepaintFence
    /\ posts = 0

\* StartRepaint: const bool ColorIsCurrent = LastRepaint == CurrentFence
ColorIsCurrent_Never(last, CurrentFence) == FALSE
ColorIsCurrent(last, CurrentFence) == last = CurrentFence

InitRepaint ==
    /\ RepaintFence = InitialRepaintFence
    /\ RepaintRequested = FALSE
    /\ LastRepaint = [g \in ColoringGroupIds |-> InitialLastRepaint]
    /\ flags = 0
    /\ rcall = <<"none">>
    /\ rflags = 0
    /\ rret = FALSE
    /\ stamped = {}
    /\ NoFrame
    /\ postpc = "idle"
    /\ NoStartRepaint

ParkedRepaint ==
    /\ RepaintFence = InitialRepaintFence
    /\ RepaintRequested = FALSE
    /\ LastRepaint = <<>>
    /\ flags = 0
    /\ rcall = <<"none">>
    /\ rflags = 0
    /\ rret = FALSE
    /\ stamped = {}
    /\ NoFrame
    /\ postpc = "idle"
    /\ NoStartRepaint

\* FlagSceneRepaint()
FlagSceneRepaint ==
    /\ flags < MaxFlags
    /\ RepaintRequested' = TRUE
    /\ flags' = flags + 1
    /\ rcall' = <<"FlagSceneRepaint">>
    /\ rflags' = flags
    /\ UNCHANGED <<RepaintFence, LastRepaint, rret, stamped, frameVars>>
    /\ UNCHANGED <<postpc, startVars, otherThanRepaint>>

\* PostPendingRepaintRequest()
PostPendingRepaintRequest ==
    /\ RepaintFence < MaxFence
    /\ RepaintFence' = FenceAfterPost(RepaintFence, RepaintRequested)
    /\ RepaintRequested' = FALSE
    /\ flags' = 0
    /\ rcall' = <<"PostPendingRepaintRequest">>
    /\ rflags' = flags
    /\ UNCHANGED <<LastRepaint, rret, stamped, frameVars>>
    /\ UNCHANGED <<postpc, startVars, otherThanRepaint>>

\* InstanceColoringGroup::StartRepaint() on group g.
StartRepaint(g) ==
    LET CurrentFence == RepaintFence
        IsCurrent == ColorIsCurrent(LastRepaint[g], CurrentFence)
    IN  /\ LastRepaint' = IF ~IsCurrent THEN [LastRepaint EXCEPT ![g] = CurrentFence]
                          ELSE LastRepaint
        /\ rret' = IsCurrent
        /\ rcall' = <<"StartRepaint", g>>
        /\ rflags' = flags
        /\ stamped' = stamped \cup {<<g, CurrentFence>>}
        /\ UNCHANGED <<RepaintFence, RepaintRequested, flags, frameVars>>
        /\ UNCHANGED <<postpc, startVars, otherThanRepaint>>

NextRepaint ==
    \/ FlagSceneRepaint
    \/ PostPendingRepaintRequest
    \/ \E g \in ColoringGroupIds : StartRepaint(g)

\* RenderFrame(ScreenWidth, ScreenHeight, UploadedView) is called on the main
\* thread and computes the frame's view.
RenderFrameBegin(view, canRender) ==
    /\ fpc = "idle"
    /\ RepaintFence < MaxFence
    /\ WorldToView' = view
    /\ prevView' = WorldToView
    /\ AnyReady' = canRender
    /\ rendered' = 0
    /\ fenceAtStart' = RepaintFence
    /\ posts' = 0
    /\ fpc' = "compare"
    /\ UNCHANGED <<RepaintFence, RepaintRequested, LastRepaint, flags, rcall, rflags,
                   rret, stamped, LastWorldToView>>
    /\ UNCHANGED <<postpc, startVars, otherThanRepaint>>

\* if (UploadedView.WorldToView != LastWorldToView)
\* { LastWorldToView = UploadedView.WorldToView; FlagSceneRepaint(); }
RenderFrameCompare ==
    /\ fpc = "compare"
    /\ IF ViewDiffers(WorldToView, LastWorldToView)
       THEN /\ LastWorldToView' = WorldToView
            /\ RepaintRequested' = TRUE
            /\ flags' = Min(MaxFlags, flags + 1)
            /\ rcall' = <<"FlagSceneRepaint">>
            /\ rflags' = flags
       ELSE UNCHANGED <<LastWorldToView, RepaintRequested, flags, rcall, rflags>>
    /\ fpc' = "render"
    /\ UNCHANGED <<RepaintFence, LastRepaint, rret, stamped, WorldToView, AnyReady,
                   rendered, prevView, fenceAtStart, posts>>
    /\ UNCHANGED <<postpc, startVars, otherThanRepaint>>

\* if (AnyReady) Group->RenderFrame(...) for the next painting set;
\* else RenderEmptyFrameGL4 or RenderEmptyFrameES2.
RenderFramePaint ==
    /\ fpc = "render"
    /\ IF AnyReady
       THEN /\ rendered' = rendered + 1
            /\ fpc' = IF rendered + 1 = NumPaintingSets THEN "post" ELSE "render"
       ELSE /\ fpc' = "post"
            /\ UNCHANGED rendered
    /\ UNCHANGED <<RepaintFence, RepaintRequested, LastRepaint, flags, rcall, rflags,
                   rret, stamped, LastWorldToView, WorldToView, AnyReady, prevView,
                   fenceAtStart, posts>>
    /\ UNCHANGED <<postpc, startVars, otherThanRepaint>>

\* PostPendingRepaintRequest(), after rendering.
RenderFramePost ==
    /\ fpc = "post"
    /\ RepaintFence' = FenceAfterPost(RepaintFence, RepaintRequested)
    /\ RepaintRequested' = FALSE
    /\ flags' = 0
    /\ rcall' = <<"PostPendingRepaintRequest">>
    /\ rflags' = flags
    /\ posts' = posts + 1
    /\ fpc' = "end"
    /\ UNCHANGED <<LastRepaint, rret, stamped, LastWorldToView, WorldToView, AnyReady,
                   rendered, prevView, fenceAtStart>>
    /\ UNCHANGED <<postpc, startVars, otherThanRepaint>>

\* RenderFrame returns.
RenderFrameReturn ==
    /\ fpc = "end"
    /\ fpc' = "idle"
    /\ UNCHANGED <<RepaintFence, RepaintRequested, LastRepaint, flags, rcall, rflags,
                   rret, stamped, LastWorldToView, WorldToView, AnyReady, rendered,
                   prevView, fenceAtStart, posts>>
    /\ UNCHANGED <<postpc, startVars, otherThanRepaint>>

\* PostPendingRepaintRequest(), statement by statement:
\* if (RepaintRequested) is evaluated.
PostTest ==
    /\ postpc = "idle"
    /\ RepaintFence < MaxFence
    /\ postpc' = IF RepaintRequested THEN "add" ELSE "idle"
    /\ rcall' = <<"PostPendingRepaintRequest">>
    /\ rflags' = flags
    /\ UNCHANGED <<RepaintFence, RepaintRequested, LastRepaint, flags, rret, stamped,
                   frameVars>>
    /\ UNCHANGED <<startVars, otherThanRepaint>>

\* RepaintFence.fetch_add(1): the FlagSceneRepaint calls made so far are served.
PostFetchAdd ==
    /\ postpc = "add"
    /\ RepaintFence' = FenceAfterPost(RepaintFence, TRUE)
    /\ flags' = 0
    /\ postpc' = "clear"
    /\ UNCHANGED <<RepaintRequested, LastRepaint, rcall, rflags, rret, stamped, frameVars>>
    /\ UNCHANGED <<startVars, otherThanRepaint>>

\* RepaintRequested = false; the call returns.
PostClear ==
    /\ postpc = "clear"
    /\ RepaintRequested' = FALSE
    /\ postpc' = "idle"
    /\ UNCHANGED <<RepaintFence, LastRepaint, flags, rcall, rflags, rret, stamped,
                   frameVars>>
    /\ UNCHANGED <<startVars, otherThanRepaint>>

\* StartRepaint() on group g by thread t, statement by statement:
\* const uint64_t CurrentFence = ::RepaintFence.load()
StartRepaintLoad(t, g) ==
    /\ spc[t] = "idle"
    /\ sgroup' = [sgroup EXCEPT ![t] = g]
    /\ sfence' = [sfence EXCEPT ![t] = RepaintFence]
    /\ spc' = [spc EXCEPT ![t] = "compare"]
    /\ UNCHANGED <<RepaintFence, RepaintRequested, LastRepaint, flags, rcall, rflags,
                   rret, stamped, frameVars, postpc, scurrent, staleReports>>
    /\ UNCHANGED otherThanRepaint

\* const bool ColorIsCurrent = LastRepaint == CurrentFence
StartRepaintCompare(t) ==
    /\ spc[t] = "compare"
    /\ scurrent' = [scurrent EXCEPT ![t] = ColorIsCurrent(LastRepaint[sgroup[t]], sfence[t])]
    /\ spc' = [spc EXCEPT ![t] = "store"]
    /\ UNCHANGED <<RepaintFence, RepaintRequested, LastRepaint, flags, rcall, rflags,
                   rret, stamped, frameVars, postpc, sgroup, sfence, staleReports>>
    /\ UNCHANGED otherThanRepaint

\* if (!ColorIsCurrent) LastRepaint = CurrentFence; return ColorIsCurrent
StartRepaintReturn(t) ==
    /\ spc[t] = "store"
    /\ IF ~scurrent[t]
       THEN /\ LastRepaint' = [LastRepaint EXCEPT ![sgroup[t]] = sfence[t]]
            /\ staleReports' = [staleReports EXCEPT ![<<sgroup[t], sfence[t]>>] = Min(2, @ + 1)]
       ELSE UNCHANGED <<LastRepaint, staleReports>>
    /\ rret' = scurrent[t]
    /\ rcall' = <<"StartRepaint", sgroup[t]>>
    /\ spc' = [spc EXCEPT ![t] = "idle"]
    /\ sgroup' = [sgroup EXCEPT ![t] = 0]
    /\ sfence' = [sfence EXCEPT ![t] = 0]
    /\ scurrent' = [scurrent EXCEPT ![t] = FALSE]
    /\ UNCHANGED <<RepaintFence, RepaintRequested, flags, rflags, stamped, frameVars,
                   postpc>>
    /\ UNCHANGED otherThanRepaint

\* StartRepaint() calls of several threads at once, with the main thread's
\* FlagSceneRepaint() and PostPendingRepaintRequest().
NextStartRace ==
    \/ FlagSceneRepaint
    \/ PostPendingRepaintRequest
    \/ \E t \in Workers : \E g \in ColoringGroupIds : StartRepaintLoad(t, g)
    \/ \E t \in Workers : StartRepaintCompare(t)
    \/ \E t \in Workers : StartRepaintReturn(t)

\* PostPendingRepaintRequest() on the main thread against FlagSceneRepaint()
\* calls of another thread.
NextRepaintRace ==
    \/ FlagSceneRepaint
    \/ PostTest
    \/ PostFetchAdd
    \/ PostClear
    \/ \E g \in ColoringGroupIds : StartRepaint(g)

\* Frames on the main thread, and the coloring groups' StartRepaint calls of
\* the worker threads.
NextFrame ==
    \/ \E view \in Views : \E canRender \in BOOLEAN : RenderFrameBegin(view, canRender)
    \/ RenderFrameCompare
    \/ RenderFramePaint
    \/ RenderFramePost
    \/ RenderFrameReturn
    \/ \E g \in ColoringGroupIds : StartRepaint(g)

----------------------------------------------------------------------------
(***************************************************************************)
(* ParallelAccumulator: Reset, Push, Size and Join.                        *)
(***************************************************************************)

\* The most Push calls followed between two Reset calls.
MaxPushes == 3
\* The values pushed.
PushValues == {"a", "b"}
\* The contents the caller's container may have when it is handed to Join.
MergedInputs == {<<>>, <<"z">>}
\* Scheduler::GetThreadIndex(): the main thread is 0, the workers follow.
AccThreads == 0..ThreadPoolSize

\* Reset(): Lanes.clear(); Lanes.resize(GetThreadPoolSize() + 1)
AccReset == [l \in 1..(ThreadPoolSize + 1) |-> <<>>]

\* Push(Value): Lanes[ThreadIndex].push_back(Value)
AccPush(lanes, ThreadIndex, Value) ==
    [lanes EXCEPT ![ThreadIndex + 1] = Append(@, Value)]

\* Size(): TotalSize += Lane.size() for every lane.
RECURSIVE AccSizeOf(_)
AccSizeOf(lanes) ==
    IF lanes = <<>> THEN 0 ELSE Len(Head(lanes)) + AccSizeOf(Tail(lanes))

\* Join, the inner loop: Merged.emplace_back(Value) for every Value of Lane.
JoinLane_Front(merged, Lane) == Lane \o merged
JoinLane(merged, Lane) == merged \o Lane

\* Join, the outer loop: for (const ContainerT& Lane : Lanes)
RECURSIVE Join(_, _)
Join(lanes, merged) ==
    IF lanes = <<>> THEN merged ELSE Join(Tail(lanes), JoinLane(merged, Head(lanes)))

\* A call that returns nothing: no result is on record after it.
NoAccResult ==
    /\ Merged' = <<>>
    /\ mergedBefore' = <<>>
    /\ accSize' = -1

InitAccumulator ==
    /\ accLanes = AccReset
    /\ accPushes = <<>>
    /\ Merged = <<>>
    /\ mergedBefore = <<>>
    /\ accSize = -1
    /\ acall = "ParallelAccumulator"

ParkedAccumulator ==
    /\ accLanes = <<>>
    /\ accPushes = <<>>
    /\ Merged = <<>>
    /\ mergedBefore = <<>>
    /\ accSize = -1
    /\ acall = "none"

\* Reset()
AccumulatorReset ==
    /\ accLanes' = AccReset
    /\ accPushes' = <<>>
    /\ acall' = "Reset"
    /\ NoAccResult
    /\ UNCHANGED otherThanAccumulator

\* Push(Value) on thread t.
AccumulatorPush(t, Value) ==
    /\ Len(accPushes) < MaxPushes
    /\ accLanes' = AccPush(accLanes, t, Value)
    /\ accPushes' = Append(accPushes, [by |-> t, value |-> Value])
    /\ acall' = "Push"
    /\ NoAccResult
    /\ UNCHANGED otherThanAccumulator

\* Size()
AccumulatorSize ==
    /\ accSize' = AccSizeOf(accLanes)
    /\ acall' = "Size"
    /\ Merged' = <<>>
    /\ mergedBefore' = <<>>
    /\ UNCHANGED <<accLanes, accPushes>>
    /\ UNCHANGED otherThanAccumulator

\* Join(Merged) on a container of the caller.
AccumulatorJoin(input) ==
    /\ mergedBefore' = input
    /\ Merged' = Join(accLanes, input)
    /\ acall' = "Join"
    /\ accSize' = -1
    /\ UNCHANGED <<accLanes, accPushes>>
    /\ UNCHANGED otherThanAccumulator

NextAccumulator ==
    \/ AccumulatorReset
    \/ \E t \in AccThreads : \E Value \in PushValues : AccumulatorPush(t, Value)
    \/ AccumulatorSize
    \/ \E input \in MergedInputs : AccumulatorJoin(input)

----------------------------------------------------------------------------
(***************************************************************************)
(* SequenceGenerator: Reset and Advance.                                   *)
(***************************************************************************)

\* The largest Count and Partitions passed to Reset.
MaxCount == 4
MaxPartitions == 3
\* The most Advance calls followed between two Reset calls.
MaxAdvances == 5

\* No Advance call has returned on the thread.
NoOut == [ret |-> FALSE, OutStart |-> -1, OutStopBefore |-> -1, LaneIndex |-> -1,
          late |-> FALSE]

\* size_t LaneIndex = Progress.fetch_add(1): the value Progress has afterwards.
FetchAdd_NoAdd(progress) == progress
FetchAdd(progress) == progress + 1

\* Every thread is outside Advance.
GeneratorIdle == \A t \in Workers : gpc[t] = "idle"

\* The state Reset(Count, Partitions) leaves.
AfterReset(Count, Partitions) ==
    /\ genCount' = Count
    /\ genPartitions' = Partitions
    /\ genLanes' = Reset(Count, Partitions)
    /\ genProgress' = 0
    /\ gOut' = [t \in Workers |-> NoOut]
    /\ handedOut' = <<>>
    /\ genCalls' = 0

InitGenerator ==
    /\ genCount = 0
    /\ genPartitions = ThreadPoolSize
    /\ genLanes = Reset(0, ThreadPoolSize)
    /\ genProgress = 0
    /\ gpc = [t \in Workers |-> "idle"]
    /\ gLaneIndex = [t \in Workers |-> 0]
    /\ gLate = [t \in Workers |-> FALSE]
    /\ gOut = [t \in Workers |-> NoOut]
    /\ handedOut = <<>>
    /\ genCalls = 0

ParkedGenerator ==
    /\ genCount = 0
    /\ genPartitions = 0
    /\ genLanes = <<>>
    /\ genProgress = 0
    /\ gpc = <<>>
    /\ gLaneIndex = <<>>
    /\ gLate = <<>>
    /\ gOut = <<>>
    /\ handedOut = <<>>
    /\ genCalls = 0

\* Reset(Count, Partitions), called while no thread is inside Advance.
GeneratorReset(Count, Partitions) ==
    /\ GeneratorIdle
    /\ AfterReset(Count, Partitions)
    /\ UNCHANGED <<gpc, gLaneIndex, gLate>>
    /\ UNCHANGED otherThanGenerator

\* Advance on thread t: size_t LaneIndex = Progress.fetch_add(1)
AdvanceFetch(t) ==
    /\ gpc[t] = "idle"
    /\ genCalls < MaxAdvances
    /\ gLaneIndex' = [gLaneIndex EXCEPT ![t] = genProgress]
    /\ genProgress' = FetchAdd(genProgress)
    /\ gLate' = [gLate EXCEPT ![t] = Len(handedOut) >= Len(genLanes)]
    /\ gpc' = [gpc EXCEPT ![t] = "fetched"]
    /\ genCalls' = genCalls + 1
    /\ UNCHANGED <<genCount, genPartitions, genLanes, gOut, handedOut>>
    /\ UNCHANGED otherThanGenerator

\* Advance on thread t: the lane is read, or 0 and 0 are written, and the
\* call returns.
AdvanceReturn(t) ==
    /\ gpc[t] = "fetched"
    /\ LET LaneIndex == gLaneIndex[t] IN
        IF LaneIndex < Len(genLanes)
        THEN /\ gOut' = [gOut EXCEPT ![t] =
                    [ret |-> TRUE, OutStart |-> genLanes[LaneIndex + 1][1],
                     OutStopBefore |-> genLanes[LaneIndex + 1][2],
                     LaneIndex |-> LaneIndex, late |-> gLate[t]]]
             /\ handedOut' = Append(handedOut, LaneIndex)
        ELSE /\ gOut' = [gOut EXCEPT ![t] =
                    [ret |-> FALSE, OutStart |-> 0, OutStopBefore |-> 0,
                     LaneIndex |-> LaneIndex, late |-> gLate[t]]]
             /\ UNCHANGED handedOut
    /\ gpc' = [gpc EXCEPT ![t] = "idle"]
    /\ gLaneIndex' = [gLaneIndex EXCEPT ![t] = 0]
    /\ gLate' = [gLate EXCEPT ![t] = FALSE]
    /\ UNCHANGED <<genCount, genPartitions, genLanes, genProgress, genCalls>>
    /\ UNCHANGED otherThanGenerator

NextGenerator ==
    \/ \E Count \in 0..MaxCount : \E Partitions \in 1..MaxPartitions :
            GeneratorReset(Count, Partitions)
    \/ \E t \in Workers : AdvanceFetch(t)
    \/ \E t \in Workers : AdvanceReturn(t)

----------------------------------------------------------------------------
\* SDFModel::UpdateColors on the render thread against a material-evaluation
\* thread that pushes color buffers to the coloring groups (SpecColors).

\* Buffers pushed to the groups of the instance.
MaxColorPushes == 3
\* Vertices of the instance.
NumColorVertices == 4

ColorVertices == 0..(NumColorVertices - 1)
ColorPusher == 1

\* A color: the push that produced it and its place in the pushed buffer.
\* The instance's colors before any push are InitialColor.
InitialColor == <<0, 0>>

\* The coloring groups of an instance: each names the Vertices of its
\* MaterialVertexGroup, IndexStart and IndexRange.
ColorLayouts ==
    { << [Vertices |-> <<2, 0, 3, 1>>, IndexStart |-> 0, IndexRange |-> 2],
         [Vertices |-> <<2, 0, 3, 1>>, IndexStart |-> 2, IndexRange |-> 2] >>,
      << [Vertices |-> <<1, 3>>, IndexStart |-> 0, IndexRange |-> 2],
         [Vertices |-> <<0, 2>>, IndexStart |-> 0, IndexRange |-> 1],
         [Vertices |-> <<0, 2>>, IndexStart |-> 1, IndexRange |-> 1] >> }

\* Vertices[Batch->IndexStart + RelativeIndex]
VertexAt(Group, RelativeIndex) == Group.Vertices[Group.IndexStart + RelativeIndex + 1]

\* The buffer of push n for a group: one color per index of the group.
PushedColors(n, Group) == [i \in 1..Group.IndexRange |-> <<n, i - 1>>]

\* std::swap(Batch->Colors, NewColors)
SwapColors_Copy(pending, local) == [pending |-> pending, local |-> pending]
SwapColors(pending, local) == [pending |-> local, local |-> pending]

\* for (RelativeIndex = 0; RelativeIndex < Batch->IndexRange; ++RelativeIndex)
\*     Colors[Vertices[Batch->IndexStart + RelativeIndex]] = NewColors[RelativeIndex]
RECURSIVE WriteColors(_, _, _, _)
WriteColors(Colors, Group, new, RelativeIndex) ==
    IF RelativeIndex < Group.IndexRange
    THEN WriteColors([Colors EXCEPT ![VertexAt(Group, RelativeIndex)] = new[RelativeIndex + 1]],
                     Group, new, RelativeIndex + 1)
    ELSE Colors

\* if (NewColors.size() > 0) { ... }
ApplyColors(Colors, Group, new) ==
    IF Len(new) > 0 THEN WriteColors(Colors, Group, new, 0) ELSE Colors

\* The push whose buffer `new` is; 0 for an empty buffer.
PushOf(new) == IF new = <<>> THEN 0 ELSE new[1][1]

InitColors ==
    /\ colorGroups \in ColorLayouts
    /\ instColors = [v \in ColorVertices |-> InitialColor]
    /\ groupColors = [g \in 1..Len(colorGroups) |-> <<>>]
    /\ ColorCS = [g \in 1..Len(colorGroups) |-> Free]
    /\ GroupIndex = 0
    /\ NewColors = <<>>
    /\ ucpc = "idle"
    /\ colorsBefore = instColors
    /\ pcpc = "idle"
    /\ pushGroup = 0
    /\ pushes = 0
    /\ applied = [n \in 1..MaxColorPushes |-> 0]

ParkedColors ==
    /\ colorGroups = <<>>
    /\ instColors = <<>>
    /\ groupColors = <<>>
    /\ ColorCS = <<>>
    /\ GroupIndex = 0
    /\ NewColors = <<>>
    /\ ucpc = "idle"
    /\ colorsBefore = <<>>
    /\ pcpc = "idle"
    /\ pushGroup = 0
    /\ pushes = 0
    /\ applied = <<>>

\* UpdateColors(NewCameraOrigin) is called: GroupIndex = 0
UpdateColorsBegin ==
    /\ ucpc = "idle"
    /\ GroupIndex' = 0
    /\ NewColors' = <<>>
    /\ ucpc' = "for"
    /\ UNCHANGED <<colorGroups, instColors, groupColors, ColorCS, colorsBefore, pcpc,
                   pushGroup, pushes, applied>>
    /\ UNCHANGED otherThanColors

\* GroupIndex < ColoringGroups.size(): Batch->ColorCS.lock() of the next
\* group, with a new empty NewColors; otherwise UpdateColors returns.
UpdateColorsLock ==
    /\ ucpc = "for"
    /\ IF GroupIndex < Len(colorGroups)
       THEN /\ ColorCS[GroupIndex + 1] = Free
            /\ ColorCS' = [ColorCS EXCEPT ![GroupIndex + 1] = Main]
            /\ NewColors' = <<>>
            /\ ucpc' = "swap"
       ELSE /\ ucpc' = "idle"
            /\ NewColors' = <<>>
            /\ UNCHANGED ColorCS
    /\ UNCHANGED <<colorGroups, instColors, groupColors, GroupIndex, colorsBefore, pcpc,
                   pushGroup, pushes, applied>>
    /\ UNCHANGED otherThanColors

\* std::swap(Batch->Colors, NewColors)
UpdateColorsSwap ==
    /\ ucpc = "swap"
    /\ LET swapped == SwapColors(groupColors[GroupIndex + 1], NewColors) IN
        /\ groupColors' = [groupColors EXCEPT ![GroupIndex + 1] = swapped.pending]
        /\ NewColors' = swapped.local
    /\ ucpc' = "unlock"
    /\ UNCHANGED <<colorGroups, instColors, ColorCS, GroupIndex, colorsBefore, pcpc,
                   pushGroup, pushes, applied>>
    /\ UNCHANGED otherThanColors

\* Batch->ColorCS.unlock()
UpdateColorsUnlock ==
    /\ ucpc = "unlock"
    /\ ColorCS' = [ColorCS EXCEPT ![GroupIndex + 1] = Free]
    /\ ucpc' = "apply"
    /\ UNCHANGED <<colorGroups, instColors, groupColors, GroupIndex, NewColors,
                   colorsBefore, pcpc, pushGroup, pushes, applied>>
    /\ UNCHANGED otherThanColors

\* if (NewColors.size() > 0) the colors are written to the instance's array.
UpdateColorsApply ==
    /\ ucpc = "apply"
    /\ instColors' = ApplyColors(instColors, colorGroups[GroupIndex + 1], NewColors)
    /\ colorsBefore' = instColors
    /\ applied' = IF Len(NewColors) > 0
                  THEN [applied EXCEPT ![PushOf(NewColors)] = Min(2, @ + 1)]
                  ELSE applied
    /\ ucpc' = "applied"
    /\ UNCHANGED <<colorGroups, groupColors, ColorCS, GroupIndex, NewColors, pcpc,
                   pushGroup, pushes>>
    /\ UNCHANGED otherThanColors

\* ++GroupIndex
UpdateColorsNext ==
    /\ ucpc = "applied"
    /\ GroupIndex' = GroupIndex + 1
    /\ ucpc' = "for"
    /\ UNCHANGED <<colorGroups, instColors, groupColors, ColorCS, NewColors, colorsBefore,
                   pcpc, pushGroup, pushes, applied>>
    /\ UNCHANGED otherThanColors

\* The material-evaluation stage takes the lock of group g to push colors.
PushColorsLock(g) ==
    /\ pcpc = "idle"
    /\ pushes < MaxColorPushes
    /\ ColorCS[g] = Free
    /\ ColorCS' = [ColorCS EXCEPT ![g] = ColorPusher]
    /\ pushGroup' = g
    /\ pcpc' = "store"
    /\ UNCHANGED <<colorGroups, instColors, groupColors, GroupIndex, NewColors, ucpc,
                   colorsBefore, pushes, applied>>
    /\ UNCHANGED otherThanColors

\* It stores the group's new colors as the pending buffer and unlocks.
PushColorsStore ==
    /\ pcpc = "store"
    /\ groupColors' = [groupColors EXCEPT
                        ![pushGroup] = PushedColors(pushes + 1, colorGroups[pushGroup])]
    /\ pushes' = pushes + 1
    /\ ColorCS' = [ColorCS EXCEPT ![pushGroup] = Free]
    /\ pushGroup' = 0
    /\ pcpc' = "idle"
    /\ UNCHANGED <<colorGroups, instColors, GroupIndex, NewColors, ucpc, colorsBefore,
                   applied>>
    /\ UNCHANGED otherThanColors

NextColors ==
    \/ UpdateColorsBegin
    \/ UpdateColorsLock
    \/ UpdateColorsSwap
    \/ UpdateColorsUnlock
    \/ UpdateColorsApply
    \/ UpdateColorsNext
    \/ \E g \in 1..Len(colorGroups) : PushColorsLock(g)
    \/ PushColorsStore

----------------------------------------------------------------------------
ParkedOtherThanDomain ==
    /\ ParkedChain
    /\ ParkedAsync
    /\ ParkedCache
    /\ ParkedMesh
    /\ ParkedRepaint
    /\ ParkedAccumulator
    /\ ParkedGenerator
    /\ ParkedColors
ParkedOtherThanChain ==
    /\ ParkedDomain
    /\ ParkedAsync
    /\ ParkedCache
    /\ ParkedMesh
    /\ ParkedRepaint
    /\ ParkedAccumulator
    /\ ParkedGenerator
    /\ ParkedColors
ParkedOtherThanAsync ==
    /\ ParkedDomain
    /\ ParkedChain
    /\ ParkedCache
    /\ ParkedMesh
    /\ ParkedRepaint
    /\ ParkedAccumulator
    /\ ParkedGenerator
    /\ ParkedColors
ParkedOtherThanCache ==
    /\ ParkedDomain
    /\ ParkedChain
    /\ ParkedAsync
    /\ ParkedMesh
    /\ ParkedRepaint
    /\ ParkedAccumulator
    /\ ParkedGenerator
    /\ ParkedColors
ParkedOtherThanMesh ==
    /\ ParkedDomain
    /\ ParkedChain
    /\ ParkedAsync
    /\ ParkedCache
    /\ ParkedRepaint
    /\ ParkedAccumulator
    /\ ParkedGenerator
    /\ ParkedColors
ParkedOtherThanRepaint ==
    /\ ParkedDomain
    /\ ParkedChain
    /\ ParkedAsync
    /\ ParkedCache
    /\ ParkedMesh
    /\ ParkedAccumulator
    /\ ParkedGenerator
    /\ ParkedColors
ParkedOtherThanAccumulator ==
    /\ ParkedDomain
    /\ ParkedChain
    /\ ParkedAsync
    /\ ParkedCache
    /\ ParkedMesh
    /\ ParkedRepaint
    /\ ParkedGenerator
    /\ ParkedColors
ParkedOtherThanGenerator ==
    /\ ParkedDomain
    /\ ParkedChain
    /\ ParkedAsync
    /\ ParkedCache
    /\ ParkedMesh
    /\ ParkedRepaint
    /\ ParkedAccumulator
    /\ ParkedColors
ParkedOtherThanColors ==
    /\ ParkedDomain
    /\ ParkedChain
    /\ ParkedAsync
    /\ ParkedCache
    /\ ParkedMesh
    /\ ParkedRepaint
    /\ ParkedAccumulator
    /\ ParkedGenerator

InitSpecDomain == InitDomain /\ ParkedOtherThanDomain
InitSpecChain == InitChain /\ ParkedOtherThanChain
InitSpecAsync == InitAsync /\ ParkedOtherThanAsync
InitSpecCache == InitCache /\ ParkedOtherThanCache
InitSpecMesh == InitMesh /\ ParkedOtherThanMesh
InitSpecRepaint == InitRepaint /\ ParkedOtherThanRepaint
InitSpecAccumulator == InitAccumulator /\ ParkedOtherThanAccumulator
InitSpecGenerator == InitGenerator /\ ParkedOtherThanGenerator
InitSpecColors == InitColors /\ ParkedOtherThanColors

SpecDomain == InitSpecDomain /\ [][NextDomain]_vars

SpecChain == InitSpecChain /\ [][NextChain]_vars

SpecAsync == InitSpecAsync /\ [][NextAsync]_vars

SpecCache == InitSpecCache /\ [][NextCache]_vars

SpecMesh == InitSpecMesh /\ [][NextMesh]_vars

SpecRepaint == InitSpecRepaint /\ [][NextRepaint]_vars

SpecAccumulator == InitSpecAccumulator /\ [][NextAccumulator]_vars

SpecGenerator == InitSpecGenerator /\ [][NextGenerator]_vars

SpecColors == InitSpecColors /\ [][NextColors]_vars

\* The domain with one thread's Loop call blocked for ever; the other threads
\* are scheduled fairly.
SpecDomainBlocked ==
    /\ InitSpecDomain
    /\ [][NextDomainBlocked]_vars
    /\ \A t \in Workers \ {BlockedThread} : WF_vars(RunStep(t))

\* The cache with DropEverything().
SpecCacheDrop == InitSpecCache /\ [][NextCacheDrop]_vars

\* The repaint fence with FlagSceneRepaint() called by another thread.
SpecRepaintRace == InitSpecRepaint /\ [][NextRepaintRace]_vars

\* The repaint fence with StartRepaint() called by several threads at once.
SpecStartRace == InitSpecRepaint /\ [][NextStartRace]_vars

SpecDraw == InitSpecMesh /\ [][NextDraw]_vars

SpecCacheReuse == InitSpecCache /\ [][NextCacheReuse]_vars

SpecDomainFill == InitSpecDomain /\ [][NextDomainFill]_vars

\* The repaint fence driven by RenderFrame only.
SpecFrame == InitSpecRepaint /\ [][NextFrame]_vars

\* The chain with no DropEverything() or Teardown(), every thread scheduled
\* fairly: the workers keep running and the main thread keeps ticking.
SpecChainFair ==
    /\ InitSpecChain
    /\ [][NextChainFair]_vars
    /\ \A t \in Threads : WF_vars(ChainStep(t))

----------------------------------------------------------------------------
\* Loop calls made with element e, with index i, and in total.
LoopsOfElem(e) == SumSeq([j \in 1..(MaxK + 1) |-> loopBag[<<e, j - 2>>]])
LoopsWithIndex(i) == SumSeq([j \in 1..MaxK |-> loopBag[<<j - 1, i>>]])
LoopsTotal == SumSeq([j \in 1..MaxK |-> LoopsOfElem(j - 1)])

\* The shapes whose Loop index is meaningful (not -1).
IndexedKinds == {"Contiguous", "SequenceGenerator", "ParallelAccumulator"}

\* Every Run() call made has returned, and at least one was made.
StageDrained == runReturns > 0 /\ \A t \in Workers : pc[t] = "idle"

\* C1: for every domain shape and size and every interleaving of Run() calls,
\* no element and no index is passed to Loop twice, and once the Run() calls
\* have returned Loop was called exactly K times, once per element.
C1_LoopOncePerElement ==
    /\ \A e \in Elems : LoopsOfElem(e) <= 1
    /\ kind \in IndexedKinds => \A i \in Idxs \ {-1} : LoopsWithIndex(i) <= 1
    /\ StageDrained =>
        /\ LoopsTotal = K
        /\ \A e \in Elems : LoopsOfElem(e) = (IF e < K THEN 1 ELSE 0)

\* C3: Setup is invoked exactly once however many threads call Run(), and no
\* Loop call begins before that Setup call has returned.
C3_SetupOnceBeforeLoop ==
    /\ setupCalls <= 1
    /\ setupReturns <= setupCalls
    /\ ~loopEarly
    /\ (\E t \in Workers : pc[t] \in {"claim", "inloop", "return"}) =>
            (setupCalls = 1 /\ setupReturns = 1)
    /\ runReturns > 0 => setupCalls = 1

\* Two threads are inside Run() at once, one in a Loop call, after the single
\* Setup call.
C3_Witness ==
    /\ \E t, u \in Workers : t # u /\ pc[t] = "inloop" /\ pc[u] \in {"claim", "inloop"}
    /\ setupCalls = 1
    /\ runCalls >= 2

----------------------------------------------------------------------------
\* The nodes linked so far, and the threads inside Exhausted() or about to
\* delete the task it returned from.
Linked == { linkSeq[i] : i \in 1..Len(linkSeq) }
ExhaustedPcs == {"exhausted", "indone", "baton", "enqueue", "clear", "retire"}
AllIdle == \A t \in Threads : cpc[t] = "idle"

\* The chain ran to its end or was dropped: nothing is left to do.
ChainQuiescent == built /\ ParallelQueue = <<>> /\ AllIdle /\ dropState # "waiting"

\* The nodes the scheduler can still reach: those in its holder, those its
\* threads work on, and their successors.
RECURSIVE Successors(_, _)
Successors(s, fuel) ==
    IF s = NoNode \/ fuel = 0 THEN {}
    ELSE {s} \cup Successors(NextTask[s], fuel - 1)

ReachableFromScheduler ==
    UNION { Successors(ParallelQueue[i], NumStages) : i \in 1..Len(ParallelQueue) }
    \cup UNION { Successors(cstage[t], NumStages) : t \in Threads }

\* C2: for every stage and every interleaving of the workers and the main
\* thread, Exhausted() and the stage's Done are invoked at most once, only
\* after every Loop call of the stage has returned, no thread is inside Run()
\* of the stage from then on, and a stage that was retired, or any stage of a
\* chain that ran to its end, had exactly one Exhausted() and one Done call.
C2_ExhaustedOnce ==
    \A s \in Nodes :
        /\ calls[s].exhausted <= 1
        /\ calls[s].done <= calls[s].exhausted
        /\ calls[s].doneRet <= calls[s].done
        /\ calls[s].exhausted = 1 =>
            /\ calls[s].loopRet = calls[s].loop
            /\ calls[s].loop = stageK[s]
            /\ \A t \in Threads : cstage[t] = s => cpc[t] \in ExhaustedPcs
        /\ retired[s] =>
            (calls[s].exhausted = 1 /\ calls[s].done = 1 /\ calls[s].doneRet = 1)
        /\ (ChainQuiescent /\ dropState = "none" /\ s \in Linked) => retired[s]

\* Two callers saw their claims fail at the same moment, and a stage whose
\* Loop ran has been exhausted.
C2_Witness ==
    /\ \E t, u \in Threads :
        t # u /\ cstage[t] = cstage[u] /\ cpc[t] = "leave" /\ cpc[u] = "leave"
    /\ \E s \in Nodes : calls[s].exhausted = 1 /\ calls[s].loop > 0

\* C4: stages run in link order: whenever Setup or a Loop call of a stage has
\* begun, the Done call of the stage linked before it has returned.
C4_DoneBeforeNextStage ==
    \A i \in 2..Len(linkSeq) :
        (calls[linkSeq[i]].setup > 0 \/ calls[linkSeq[i]].loop > 0) =>
            calls[linkSeq[i - 1]].doneRet = 1

\* The second stage is in a Loop call while the thread that finished the
\* first stage is still inside BatonPass.
C4_Witness ==
    /\ Len(linkSeq) >= 2
    /\ calls[linkSeq[2]].loop > calls[linkSeq[2]].loopRet
    /\ \E t \in Threads : cstage[t] = linkSeq[1] /\ cpc[t] = "clear"

\* C5: the payload is never copied: at most one of the caller's pointer and the
\* chain's nodes holds it; from the construction of the head until the payload
\* is destroyed with its node exactly one node holds it; and once BatonPass has
\* swapped, the finished node holds none and its successor holds it when it is
\* enqueued.
C5_OnePayloadHolder ==
    LET holders == {s \in Nodes : IntermediaryData[s]}
    IN  /\ Cardinality(holders) + (IF InitialIntermediaryData THEN 1 ELSE 0) <= 1
        /\ holders \subseteq {s \in Nodes : Alive(s)}
        /\ (linkSeq # <<>> /\ ~payloadDestroyed) => Cardinality(holders) = 1
        /\ \A t \in Threads :
            /\ cpc[t] \in {"enqueue", "clear"} => ~IntermediaryData[cstage[t]]
            /\ cpc[t] = "enqueue" => IntermediaryData[NextTask[cstage[t]]]

\* BatonPass has swapped: the successor holds the payload and the finished
\* node, still alive, holds none.
C5_Witness ==
    \E t \in Threads :
        /\ cpc[t] = "enqueue"
        /\ Alive(cstage[t])
        /\ ~IntermediaryData[cstage[t]]
        /\ IntermediaryData[NextTask[cstage[t]]]

\* C6: once a DropEverything() that was called while a chain stage was the
\* active parallel task has returned, no thread is inside Run, Loop, Done or
\* Exhausted of any stage, and the scheduler reaches no node of the chain.
C6_DropLeavesNothing ==
    (dropState = "returned" /\ dropInFlight) =>
        /\ AllIdle
        /\ ParallelQueue = <<>>
        /\ ReachableFromScheduler = {}

\* DropEverything() was called while a worker was inside a Loop call of the
\* first stage, and has returned; the last stage never ran.
C6_Witness ==
    /\ dropState = "returned"
    /\ dropInFlight
    /\ Len(linkSeq) = NumStages
    /\ calls[linkSeq[1]].loopRet > 0
    /\ calls[linkSeq[NumStages]].run = 0

\* C7: no node's destructor runs twice, no thread works on a destroyed node,
\* and once the chain has run to its end or was dropped every linked node has
\* been destroyed.
C7_DestroyedOnce ==
    /\ \A s \in Nodes : destroyCount[s] <= 1
    /\ \A t \in Threads : cstage[t] # NoNode => destroyCount[cstage[t]] = 0
    /\ \A i \in 1..Len(ParallelQueue) : destroyCount[ParallelQueue[i]] = 0
    /\ ChainQuiescent => \A s \in Linked : destroyCount[s] = 1

\* A whole chain was dropped before its head ran: deleting the head destroyed
\* its successors too.
C7_Witness ==
    /\ dropState = "returned"
    /\ Len(linkSeq) = NumStages
    /\ calls[linkSeq[1]].run = 0
    /\ \A s \in Nodes : destroyCount[s] = 1

----------------------------------------------------------------------------
C9_MainThreadOnly ==
    \A e \in execLog : e.by = Main /\ e.inAdvance /\ ~e.concurrent

\* All three kinds have been executed, the last while a worker was inside
\* Run() of another task.
C9_Witness ==
    /\ {e.what : e \in execLog} = {"Done", "ContinuousRun", "Delete"}
    /\ \E w \in Workers : wpc[w] = "run"
    /\ apc \in AdvancePcs

----------------------------------------------------------------------------
\* The Drawables made for identity key whose build is still in flight and
\* whose first instance (the one that made the Drawable) is still alive.
FirstBuildsInFlight(key) ==
    {d \in DrawableIds :
        /\ Drawables[d].state = "alive"
        /\ Drawables[d].Key = key
        /\ Drawables[d].building
        /\ Models[Drawables[d].creator].state \in {"constructing", "alive"}}

\* The instances of identity key that are bound to a Drawable and alive.
BoundModels(key) ==
    {i \in ModelIds :
        /\ Models[i].state \in {"constructing", "alive"}
        /\ Models[i].Key = key
        /\ Models[i].Painter # NoDrawable}

\* C10: SDFModel creations with the same evaluator identity, made one after
\* the other or at once from different threads while the first build is in
\* flight and the first instance is alive, all reference the same Drawable,
\* and Sodapop::Populate is started exactly once for them.
C10_SameIdentitySharesDrawable ==
    \A key \in Keys :
        \A d \in FirstBuildsInFlight(key) :
            /\ FirstBuildsInFlight(key) = {d}
            /\ Drawables[d].populates = 1
            /\ \A i \in BoundModels(key) : Models[i].Painter = d

\* The same, in the runs where no prune ran while a thread held the lock.
C10_WithoutOverlappingPrune == ~pruneOverlapped => C10_SameIdentitySharesDrawable

----------------------------------------------------------------------------
\* The cache entries of identity key whose weak reference is not expired.
LiveEntries(key) ==
    {n \in 1..Len(DrawableCache) :
        DrawableCache[n].first = key /\ ~Expired(Drawables, DrawableCache[n])}

\* C11: in every reachable state, after any model creations, instance
\* destructions and prune finalizers, the cache holds at most one entry per
\* identity whose weak reference is not expired.
C11_OneLiveEntryPerIdentity ==
    \A key \in Keys : Cardinality(LiveEntries(key)) <= 1

\* The same, in the runs where no prune ran while a thread held the lock.
C11_WithoutOverlappingPrune == ~pruneOverlapped => C11_OneLiveEntryPerIdentity

----------------------------------------------------------------------------
\* The Drawables of identity key that still have a strong reference.
AliveDrawables(key) ==
    {d \in DrawableIds : Drawables[d].Key = key /\ Drawables[d].state = "alive"}

\* Thread t's constructor returns in this step.
ConstructorReturns(t) == mpc[t] = "scan" /\ mpc'[t] = "idle"

\* C12: once the last strong reference to a Drawable is released, a creation
\* with the same identity never reuses it: with no Drawable of that identity
\* alive, the creation makes a new Drawable, appends a new cache entry and
\* starts a new build, whether or not the expired entry was pruned.
C12_ExpiredNeverReused ==
    [][\A t \in Workers :
        ConstructorReturns(t) =>
            LET key == Models[mthis[t]].Key
                Painter == Models'[mthis[t]].Painter
            IN  /\ Drawables[Painter].state # "destroyed"
                /\ AliveDrawables(key) = {} =>
                    /\ Drawables[Painter].state = "none"
                    /\ Drawables'[Painter].state = "alive"
                    /\ Drawables'[Painter].building
                    /\ Drawables'[Painter].populates = 1
                    /\ DrawableCache' =
                        Append(DrawableCache, [first |-> key, second |-> Painter])]_vars

\* A model is bound to a new Drawable while the expired entry of an earlier
\* Drawable of the same identity is still in the cache.
C12_Witness ==
    \E i \in ModelIds, n \in 1..Len(DrawableCache) :
        /\ Models[i].state = "alive"
        /\ Drawables[Models[i].Painter].state = "alive"
        /\ DrawableCache[n].first = Models[i].Key
        /\ Drawables[DrawableCache[n].second].state = "destroyed"
        /\ DrawableCache[n].second < Models[i].Painter

----------------------------------------------------------------------------
\* C13: no Drawable and no SDFModel holds the evaluator tree passed in by
\* the caller: a Drawable's Evaluator is the copy made when it was created,
\* and every instance's Evaluator is the Evaluator of the Drawable it is
\* bound to, also when the Drawable was found in the cache.
C13_EvaluatorIsPrivateCopy ==
    /\ \A d \in DrawableIds :
        Drawables[d].state = "alive" => Drawables[d].Evaluator = <<"copy", d>>
    /\ \A d \in DrawableIds, key \in Keys : Drawables[d].Evaluator # CallerTree(key)
    /\ \A i \in ModelIds :
        /\ \A key \in Keys : Models[i].Evaluator # CallerTree(key)
        /\ Models[i].state = "alive" =>
            Models[i].Evaluator = Drawables[Models[i].Painter].Evaluator

\* Two instances share a Drawable, the second having found it in the cache.
C13_Witness ==
    \E i, j \in ModelIds :
        /\ i # j
        /\ Models[i].state = "alive" /\ Models[j].state = "alive"
        /\ Models[i].Painter = Models[j].Painter
        /\ Models[j].Evaluator = <<"copy", Models[i].Painter>>

----------------------------------------------------------------------------
\* The registered, live instances of the Drawable.
RegisteredModels ==
    {i \in ModelIds : meshModels[i].state = "alive" /\ meshModels[i].registered}

\* C14: every instance bound to a Drawable gets its coloring groups built
\* exactly once, by MeshReady's broadcast or by RegisterNewModel, under every
\* interleaving of MeshReady with SDFModel::Create: once MeshReady has
\* returned no registered instance is left without them, and none is
\* populated twice (ColoringGroups is empty whenever MeshReadyInner is
\* entered).
C14_ColoringGroupsOnce ==
    /\ \A i \in ModelIds : meshModels[i].populated <= 1
    /\ ready = "done" => \A i \in RegisteredModels : meshModels[i].populated = 1

\* The same, in the runs where no SDFModel::Create overlapped MeshReady.
C14_WithoutOverlappingCreate == ~meshReadyOverlapped => C14_ColoringGroupsOnce


\* The coloring groups of a model that belong to one material slot, in the
\* order MeshReadyInner created them.
GroupsOf(cg, slot) == SelectSeq(cg, LAMBDA g : g.VertexGroup = slot)

RECURSIVE SumRanges(_)
SumRanges(gs) == IF gs = <<>> THEN 0 ELSE Head(gs).Range + SumRanges(Tail(gs))

\* C15: for a material group of n vertices a populated model has coloring
\* groups at offsets 0, 512, 1024, ..., each of range 1..512, that do not
\* overlap, whose ranges sum to n, and of which only the last may be smaller
\* than 512; a material group of 0 vertices has none.
C15_ColoringGroupsPartition ==
    \A i \in ModelIds : meshModels[i].populated = 1 =>
        /\ \A k \in 1..Len(meshModels[i].ColoringGroups) :
                meshModels[i].ColoringGroups[k].VertexGroup \in 1..NumSlots
        /\ \A slot \in 1..NumSlots :
            LET gs == GroupsOf(meshModels[i].ColoringGroups, slot)
                n  == MaterialSlots[slot]
            IN  /\ n = 0 => gs = <<>>
                /\ SumRanges(gs) = n
                /\ \A k \in 1..Len(gs) :
                    /\ gs[k].Offset = (k - 1) * 512
                    /\ gs[k].Range \in 1..512
                    /\ k < Len(gs) => /\ gs[k].Range = 512
                                      /\ gs[k].Offset + gs[k].Range <= gs[k + 1].Offset

\* A populated model whose material group of 1025 vertices was split in three.
C15_Witness ==
    \E i \in ModelIds : \E slot \in 1..NumSlots :
        /\ meshModels[i].populated = 1
        /\ MaterialSlots[slot] = 1025
        /\ Len(GroupsOf(meshModels[i].ColoringGroups, slot)) = 3


\* C16: from a state with no pending repaint request, n >= 1 calls of
\* FlagSceneRepaint followed by one PostPendingRepaintRequest increase the
\* fence by exactly 1, and a PostPendingRepaintRequest with no
\* FlagSceneRepaint since the previous one leaves the fence unchanged.
C16_FenceCoalesces ==
    [][rcall' = <<"PostPendingRepaintRequest">> =>
        /\ flags >= 1 => RepaintFence' = RepaintFence + 1
        /\ flags = 0 => RepaintFence' = RepaintFence]_vars

\* A post that followed several FlagSceneRepaint calls and moved the fence
\* one step from its initial value.
C16_Witness ==
    /\ rcall = <<"PostPendingRepaintRequest">>
    /\ rflags >= 2
    /\ RepaintFence = InitialRepaintFence + 1

\* C17: for every coloring group and fence value F, the first StartRepaint
\* made while the fence is F returns false and sets LastRepaint to F; every
\* later call made while the fence is still F returns true and changes
\* nothing.
C17_StaleOncePerFence ==
    [][\A g \in ColoringGroupIds : rcall' = <<"StartRepaint", g>> =>
        IF <<g, RepaintFence>> \notin stamped
        THEN /\ rret' = FALSE
             /\ LastRepaint'[g] = RepaintFence
        ELSE /\ rret' = TRUE
             /\ UNCHANGED <<LastRepaint, RepaintFence, RepaintRequested>>]_vars

\* A group was repainted at two fence values and then asked again at the
\* second one.
C17_Witness ==
    \E g \in ColoringGroupIds :
        /\ rcall = <<"StartRepaint", g>>
        /\ rret = TRUE
        /\ RepaintFence > InitialRepaintFence
        /\ <<g, InitialRepaintFence>> \in stamped
        /\ LastRepaint[g] = RepaintFence


\* The positions of the cache entries whose Drawable has been destroyed.
ExpiredPositions ==
    {n \in 1..Len(DrawableCache) : Drawables[DrawableCache[n].second].state = "destroyed"}

\* The cache with the entry at position k taken out, the rest in order.
WithoutPosition(cache, k) ==
    [n \in 1..(Len(cache) - 1) |-> IF n < k THEN cache[n] ELSE cache[n + 1]]

\* C18: each run of the prune finalizer removes the first expired cache
\* entry when there is one and nothing otherwise, never an entry whose
\* Drawable is alive, and leaves the other entries and their order as they
\* were; every destruction of a Drawable enqueues exactly one finalizer.
C18_PruneOneExpired ==
    [][/\ PendingPrunes' = PendingPrunes - 1 =>
            /\ ExpiredPositions = {} => DrawableCache' = DrawableCache
            /\ ExpiredPositions # {} =>
                \E k \in ExpiredPositions :
                    /\ \A n \in ExpiredPositions : k <= n
                    /\ DrawableCache' = WithoutPosition(DrawableCache, k)
            /\ \A n \in 1..Len(DrawableCache) : n \notin ExpiredPositions =>
                \E m \in 1..Len(DrawableCache') : DrawableCache'[m] = DrawableCache[n]
       /\ \A d \in DrawableIds :
            Drawables[d].state = "alive" /\ Drawables'[d].state = "destroyed" =>
                PendingPrunes' = PendingPrunes + 1]_vars

\* Two Drawables were destroyed and one finalizer has run: one expired
\* entry is gone, the other and a live entry are still there, one finalizer
\* is pending.
C18_Witness ==
    /\ PendingPrunes = 1
    /\ Cardinality(ExpiredPositions) = 1
    /\ Cardinality({d \in DrawableIds : Drawables[d].state = "destroyed"}) = 2
    /\ \E n \in 1..Len(DrawableCache) : n \notin ExpiredPositions


\* The last stage linked into the build chain: its Done thunk finalizes the
\* buffers and calls MeshReady(Painter).
FinalStage == linkSeq[Len(linkSeq)]

\* MeshReady(Painter) has been invoked, so that Painter->MeshAvailable is
\* true: the chain's final stage ran its Done thunk.
MeshReadyInvoked == built /\ calls[FinalStage].done > 0

\* DropEverything() has returned and deleted the chain's final stage, which
\* had not completed.
BuildDiscarded ==
    /\ built
    /\ dropState = "returned"
    /\ destroyCount[FinalStage] > 0
    /\ ~retired[FinalStage]

\* C19: if DropEverything() discards a Drawable's build chain before its
\* final stage has completed, MeshReady is never invoked for the Drawable
\* and its MeshAvailable stays false in every later state.
C19_DroppedBuildNeverReady == BuildDiscarded => ~MeshReadyInvoked

\* A two stage chain whose first stage completed and passed the baton, and
\* whose final stage was deleted by DropEverything().
C19_Witness ==
    /\ BuildDiscarded
    /\ Len(linkSeq) = 2
    /\ calls[linkSeq[1]].done = 1
    /\ retired[linkSeq[1]]


\* C20: ParallelAccumulator::Advance hands each lane to exactly one caller
\* together with the lane's absolute starting offset in the merged sequence,
\* so a stage over a ParallelAccumulator passes every element to Loop at most
\* once and with the index the element has in the sequence Join produces
\* (elements are named by that index).
C20_LoopIndexIsJoinIndex ==
    kind = "ParallelAccumulator" =>
        /\ \A e \in Elems : LoopsOfElem(e) <= 1
        /\ \A e \in Elems : \A i \in Idxs : loopBag[<<e, i>>] > 0 => i = e

\* The same without the offset: every lane goes to one caller only.
C20_EachLaneToOneCaller ==
    kind = "ParallelAccumulator" => \A e \in Elems : LoopsOfElem(e) <= 1


\* The values thread t pushed since the last Reset, in push order.
RECURSIVE PushedBy(_, _)
PushedBy(pushed, t) ==
    IF pushed = <<>> THEN <<>>
    ELSE (IF Head(pushed).by = t THEN <<Head(pushed).value>> ELSE <<>>)
            \o PushedBy(Tail(pushed), t)

\* The pushed values lane by lane from lane `t` on, lanes in increasing index.
RECURSIVE PushedFromLane(_, _)
PushedFromLane(pushed, t) ==
    IF t > ThreadPoolSize THEN <<>>
    ELSE PushedBy(pushed, t) \o PushedFromLane(pushed, t + 1)

\* C21: after any Push calls since the last Reset, Join appends to its
\* output every pushed value exactly once, lane 0 first and then the lanes in
\* increasing index, the values of a lane in push order; the number of values
\* appended is the number of Push calls and is what Size() returns.
C21_JoinLaneThenPushOrder ==
    /\ acall = "Join" =>
        /\ Merged = mergedBefore \o PushedFromLane(accPushes, 0)
        /\ Len(Merged) - Len(mergedBefore) = Len(accPushes)
        /\ Len(Merged) - Len(mergedBefore) = AccSizeOf(accLanes)
    /\ acall = "Size" => accSize = Len(accPushes)

\* A worker pushed before the main thread did, a second worker pushed too,
\* and Join was called on a container that was not empty.
C21_Witness ==
    /\ acall = "Join"
    /\ mergedBefore # <<>>
    /\ Len(accPushes) = 3
    /\ accPushes[1].by = 2 /\ accPushes[2].by = 0 /\ accPushes[3].by = 1
    /\ accPushes[1].value # accPushes[2].value


\* The lanes that hold index n.
LanesHolding(n) ==
    {l \in 1..Len(genLanes) : genLanes[l][1] <= n /\ n < genLanes[l][2]}

\* C22: for every Count >= 0 and Partitions >= 1, Reset(Count, Partitions)
\* leaves at most Partitions lanes, every lane non-empty, the lanes contiguous
\* and increasing from 0 to Count without gap or overlap, so that every index
\* in [0, Count) is in exactly one lane; Count = 0 leaves no lane.
C22_ResetPartitionsRange ==
    /\ Len(genLanes) <= genPartitions
    /\ \A l \in 1..Len(genLanes) : genLanes[l][1] < genLanes[l][2]
    /\ genLanes # <<>> => genLanes[1][1] = 0 /\ genLanes[Len(genLanes)][2] = genCount
    /\ \A l \in 1..(Len(genLanes) - 1) : genLanes[l][2] = genLanes[l + 1][1]
    /\ \A n \in 0..(genCount - 1) : Cardinality(LanesHolding(n)) = 1
    /\ genCount = 0 => genLanes = <<>>

\* Reset(4, 3): the slices are 2 wide and two lanes cover the range.
C22_Witness ==
    /\ genCount = 4
    /\ genPartitions = 3
    /\ Len(genLanes) = 2
    /\ genLanes[2] = <<2, 4>>

\* C28: under any interleaving of concurrent Advance calls on one
\* SequenceGenerator every lane is returned, with result true, to exactly one
\* call, and once all lanes have been handed out every further call returns
\* false with start = stopBefore = 0 until the next Reset.
C28_EachLaneToOneCall ==
    /\ \A l \in 0..(Len(genLanes) - 1) :
        Cardinality({k \in 1..Len(handedOut) : handedOut[k] = l}) <= 1
    /\ GeneratorIdle /\ genCalls >= Len(genLanes) =>
        \A l \in 0..(Len(genLanes) - 1) : \E k \in 1..Len(handedOut) : handedOut[k] = l
    /\ \A t \in Workers :
        /\ gOut[t].ret =>
            /\ gOut[t].LaneIndex < Len(genLanes)
            /\ gOut[t].OutStart = genLanes[gOut[t].LaneIndex + 1][1]
            /\ gOut[t].OutStopBefore = genLanes[gOut[t].LaneIndex + 1][2]
        /\ gOut[t].late => /\ ~gOut[t].ret
                           /\ gOut[t].OutStart = 0
                           /\ gOut[t].OutStopBefore = 0

\* Three lanes went to calls on two threads, and a call begun after that
\* returned false.
C28_Witness ==
    /\ Len(genLanes) = 3
    /\ Len(handedOut) = 3
    /\ \E t \in Workers : gOut[t].late
    /\ \E t \in Workers : gOut[t].ret
    /\ \E k \in 1..2 : handedOut[k] > handedOut[k + 1]


\* The shapes whose cursor is read and advanced under IterationCS.
MutexClaimKinds == {"Forward", "SDFOctree"}

\* Every element of the domain has been passed to Loop.
AllElementsLooped == \A e \in Elems : e < K => LoopsOfElem(e) = 1

\* C23: in the forward-only and octree leaf list domains IterationCS is held
\* only while the cursor is read and advanced and never while Loop runs: when
\* a Loop call blocks for ever on one thread, the other threads still claim
\* and process every remaining element.
C23_BlockedLoopStallsNoOne ==
    /\ [](kind \in MutexClaimKinds =>
            \A t \in Workers : pc[t] = "inloop" => IterationCS # t)
    /\ (kind \in MutexClaimKinds /\ pc[BlockedThread] = "inloop") ~> AllElementsLooped

\* The blocked thread sits in its Loop call while the other threads have
\* taken every other element of a domain of three.
C23_Witness ==
    /\ kind \in MutexClaimKinds
    /\ K = 3
    /\ pc[BlockedThread] = "inloop"
    /\ AllElementsLooped
    /\ \A t \in Workers \ {BlockedThread} : pc[t] = "idle"


\* The deferred deletes that have been executed.
DeletesExecuted == {e.task : e \in {x \in execLog : x.what = "Delete"}}

RunPcs == {"lock", "setup", "claim", "inloop"}

\* Every stage of the chain has been exhausted and the last one ran Done.
ChainCompleted ==
    /\ built
    /\ \A s \in InSeq(linkSeq) : calls[s].exhausted > 0 /\ calls[s].loopRet = stageK[s]
    /\ calls[FinalStage].doneRet > 0

\* C25: with every thread scheduled fairly, finite domains, terminating
\* Setup, Loop and Done bodies and no DropEverything() or Teardown(), every
\* Run() call returns and every stage of an enqueued chain is eventually
\* exhausted, so that the last stage eventually runs its Done.
C25_ChainRunsToCompletion ==
    /\ \A t \in Threads : (cpc[t] \in RunPcs) ~> (cpc[t] \notin RunPcs)
    /\ built ~> ChainCompleted

\* A chain of several stages, one of them with elements to process, ran
\* through to the Done of its last stage.
C25_Witness ==
    /\ ChainCompleted
    /\ dropState = "none"
    /\ Len(linkSeq) > 1
    /\ \E s \in InSeq(linkSeq) : stageK[s] > 0
    /\ \E s \in InSeq(linkSeq) : calls[s].run > 1


\* The group UpdateColors is at, and the vertices of that group.
ThisGroup == colorGroups[GroupIndex + 1]
GroupVertices == {VertexAt(ThisGroup, i) : i \in 0..(ThisGroup.IndexRange - 1)}

\* C26: UpdateColors takes each group's pending buffer while it holds the
\* group's lock and leaves the pending buffer empty; a non-empty buffer's
\* i-th color is written to the instance's colors at Vertices[IndexStart + i]
\* for every i < IndexRange, an empty one changes nothing; the colors of
\* vertices outside the group are not changed for the group; and a pushed
\* buffer is applied at most once.
C26_UpdateColorsAppliesPending ==
    /\ ucpc = "unlock" => ColorCS[GroupIndex + 1] = Main /\ groupColors[GroupIndex + 1] = <<>>
    /\ ucpc = "applied" =>
        /\ Len(NewColors) > 0 =>
            \A i \in 0..(ThisGroup.IndexRange - 1) : instColors[VertexAt(ThisGroup, i)] = NewColors[i + 1]
        /\ Len(NewColors) = 0 => instColors = colorsBefore
        /\ \A v \in ColorVertices \ GroupVertices : instColors[v] = colorsBefore[v]
    /\ \A n \in 1..MaxColorPushes : applied[n] <= 1

\* UpdateColors has written a pushed buffer to the second group's vertices
\* after it wrote another to the first group's, and a third buffer is pending.
C26_Witness ==
    /\ ucpc = "applied"
    /\ GroupIndex > 0
    /\ Len(NewColors) > 0
    /\ \E v \in ColorVertices \ GroupVertices : instColors[v] # InitialColor
    /\ \E g \in 1..Len(colorGroups) : groupColors[g] # <<>>


\* The shapes whose elements have a position or are integers themselves, and
\* those that are walked with a cursor.
PositionKinds == {"Contiguous", "SequenceGenerator"}
CursorKinds == {"Forward", "SDFOctree"}

\* C27: the index passed to Loop is the element's position in a
\* random-access domain and the generated integer itself in a
\* SequenceGenerator domain, and it is -1 for every element of a forward-only
\* sequence and of an octree's leaf list.
C27_LoopIndexByDomainShape ==
    \A e \in Elems : \A i \in Idxs : loopBag[<<e, i>>] > 0 =>
        /\ kind \in PositionKinds => i = e
        /\ kind \in CursorKinds => i = -1

\* Loop ran for an element of a forward-only sequence or a leaf list that is
\* not its first.
C27_Witness ==
    /\ kind \in CursorKinds
    /\ \E e \in Elems \ {0} : \E i \in Idxs : loopBag[<<e, i>>] > 0
    /\ StageDrained


\* Where the main thread is in RenderFrame before PostPendingRepaintRequest.
BeforePost == {"compare", "render", "post"}

\* The frame's rendering is complete: every painting set was rendered, or
\* none can render and the empty frame was.
RenderingDone == fpc \in {"post", "end"} /\ (AnyReady => rendered = NumPaintingSets)

\* C29: each RenderFrame call raises the repaint flag when the world-to-view
\* matrix differs from the previous frame's, and calls
\* PostPendingRepaintRequest exactly once and only after all painting sets
\* were rendered: the fence does not change while the frame is rendered and
\* advances by at most 1 per frame.
C29_FramePostsOnceAfterRendering ==
    /\ (fpc \in {"render", "post"} /\ WorldToView # prevView) => RepaintRequested
    /\ fpc \in BeforePost => posts = 0 /\ RepaintFence = fenceAtStart
    /\ fpc = "end" =>
        /\ posts = 1
        /\ RenderingDone
        /\ RepaintFence \in {fenceAtStart, fenceAtStart + 1}
        /\ WorldToView # prevView => RepaintFence = fenceAtStart + 1

\* A later frame with a new view has rendered both painting sets and then
\* advanced the fence, while a coloring group is stamped with the old fence.
C29_Witness ==
    /\ fpc = "end"
    /\ AnyReady
    /\ WorldToView # prevView
    /\ fenceAtStart > InitialRepaintFence
    /\ RepaintFence = fenceAtStart + 1
    /\ \E g \in ColoringGroupIds : LastRepaint[g] = fenceAtStart


\* Where a thread is while the stage's payload is dereferenced: inside Run()
\* (the domain accessor, Setup and Loop) and inside Done.
PayloadPcs == RunPcs \cup {"indone"}

\* C30: whenever a thread can call Run() on a chain stage, that stage holds
\* the payload: BatonPass hands the payload to the successor before the
\* successor becomes the active parallel task, and no Run() on the
\* predecessor reads the payload afterwards, so that no domain accessor,
\* Setup, Loop or Done dereferences an absent payload.
C30_RunnableStageHoldsPayload ==
    /\ ActiveTask # NoNode => IntermediaryData[ActiveTask]
    /\ \A t \in Threads : cpc[t] \in PayloadPcs => IntermediaryData[cstage[t]]
    /\ \A t \in Threads : cpc[t] \in {"enqueue", "clear"} =>
        /\ ~IntermediaryData[cstage[t]]
        /\ \A u \in Threads : cpc[u] \in RunPcs => cstage[u] # cstage[t]

\* A thread is inside Loop of a stage that received the payload from its
\* predecessor, while another thread has not yet returned from the
\* predecessor's BatonPass.
C30_Witness ==
    /\ \E t \in Threads : 
        /\ cpc[t] = "inloop"
        /\ cstage[t] # linkSeq[1]
        /\ IntermediaryData[cstage[t]]
        /\ \E u \in Threads : cpc[u] = "clear" /\ NextTask[cstage[u]] = cstage[t]
    /\ dropState = "none"


----------------------------------------------------------------------------
\* C31: every read and every modification of the shape cache's entry list
\* happens while the cache lock is held, so no prune runs while another
\* thread is inside its locked lookup or insertion.
C31_CacheAccessUnderLock == ~pruneOverlapped


\* The positions of the cache whose Drawable has been destroyed.
ExpiredEntries == {n \in 1..Len(DrawableCache) : Expired(Drawables, DrawableCache[n])}

\* C32: every cache entry whose Drawable has been destroyed is removed in
\* the end: once Advance() has run all the deferred-delete finalizers the
\* cache holds no expired entry, also when DropEverything() was called
\* between the Drawable's destruction and the next Advance().
C32_NoExpiredEntryAfterFinalizers == PendingPrunes = 0 => ExpiredEntries = {}


\* C33: after DropEverything() has cancelled a Drawable's build, a new
\* SDFModel creation for the same evaluator identity starts a new build,
\* whose mesh becomes available in the end, also while an instance created
\* before the cancellation is alive: no creation is bound to a Drawable whose
\* build was cancelled.
C33_CreationAfterDropRebuilds ==
    [][\A t \in Workers :
        ConstructorReturns(t) =>
            LET Painter == Models'[mthis[t]].Painter
            IN  /\ ~Drawables'[Painter].cancelled
                /\ (\E d \in DrawableIds :
                        Drawables[d].Key = Models[mthis[t]].Key /\ Drawables[d].cancelled)
                    => Drawables'[Painter].building]_vars

\* The same, for the creations made when no instance of the cancelled
\* Drawable is alive.
C33_WithoutOlderInstance ==
    [][\A t \in Workers :
        (ConstructorReturns(t) /\ AliveDrawables(Models[mthis[t]].Key) = {}) =>
            LET Painter == Models'[mthis[t]].Painter
            IN  ~Drawables'[Painter].cancelled /\ Drawables'[Painter].building]_vars


\* C34: no repaint signal is lost: every FlagSceneRepaint() call, also one
\* made by another thread while PostPendingRepaintRequest() is executing, is
\* followed by a fence increment at that or a later
\* PostPendingRepaintRequest() call. A call not yet followed by an increment
\* leaves the request raised for the next PostPendingRepaintRequest().
C34_NoRepaintSignalLost == (postpc = "idle" /\ flags > 0) => RepaintRequested


\* C35: when several threads call StartRepaint() at once on the same
\* coloring group while the fence has one value, at most one of the calls
\* reports stale.
C35_OneStaleReportPerFence ==
    \A g \in ColoringGroupIds : \A f \in 1..MaxFence : staleReports[<<g, f>>] <= 1


\* C36: the repaint fence is at least 1 and never decreases, every coloring
\* group's LastRepaint stamp is at most the current fence, and a StartRepaint()
\* call on a group whose stamp is still 0 reports stale.
FenceBounds ==
    /\ RepaintFence >= InitialRepaintFence
    /\ \A g \in ColoringGroupIds : LastRepaint[g] <= RepaintFence

FirstStartRepaintIsStale ==
    \A g \in ColoringGroupIds :
        (StartRepaint(g) /\ LastRepaint[g] = InitialLastRepaint) =>
            (~rret' /\ LastRepaint'[g] = RepaintFence)

C36_FenceMonotoneAndStampsBounded ==
    /\ []FenceBounds
    /\ [][RepaintFence' >= RepaintFence /\ FirstStartRepaintIsStale]_vars

\* A fresh group was stamped for the first time after the fence had advanced.
C36_Witness ==
    /\ RepaintFence > InitialRepaintFence
    /\ rcall[1] = "StartRepaint"
    /\ ~rret
    /\ \E g \in ColoringGroupIds : LastRepaint[g] = RepaintFence
    /\ \E g \in ColoringGroupIds : LastRepaint[g] = InitialLastRepaint


\* C37: the Drawable's index and position buffers are uploaded, and
\* MeshUploaded set, only once MeshAvailable is true, and at most once, so
\* that what the renderer holds is the finished mesh.
C37_UploadOnlyWhenMeshAvailable ==
    /\ MeshUploaded => uploadedMesh = "finished"
    /\ uploads <= 1


\* C38: an instance is bound only to a Drawable built from the evaluator tree
\* the instance was requested for, and so two instances that share a
\* Drawable were created from the same tree, also after an evaluator was
\* freed and its address given to another tree.
C38_SharedDrawableSameEvaluator ==
    \A i \in ModelIds :
        Models[i].state = "alive" =>
            /\ Drawables[Models[i].Painter].Origin = Models[i].Origin
            /\ \A j \in ModelIds :
                (Models[j].state = "alive" /\ Models[j].Painter = Models[i].Painter)
                    => Models[j].Origin = Models[i].Origin


\* C39: for every domain shape the elements passed to Loop are the contents
\* of the domain as Setup left it: no other element is passed, and once the
\* Run() calls have returned every element of the domain was passed, also
\* when Setup itself filled the domain.
C39_LoopSeesDomainAfterSetup ==
    /\ \A e \in Elems : LoopsOfElem(e) > 0 => e < K
    /\ StageDrained => \A e \in Elems : e < K => LoopsOfElem(e) > 0
====
